---- MODULE Spec2Model ----
(***************************************************************************)
(* Model of the SigNoz bridge (src/src/otlp/bridge.rs): the process-wide   *)
(* statics, the threads that call the public API, and the background       *)
(* execution context that init_signoz_from_env spawns.  Every step is one  *)
(* critical section of one of the mutexes (or one message operation of the *)
(* request channel), which is the granularity at which threads interleave. *)
(***************************************************************************)
EXTENDS Integers, Sequences, FiniteSets, TLC

\* ---------------------------------------------------------------------------
\* Bounds
\* ---------------------------------------------------------------------------
MaxRequests == 3
MaxConcRequests == 2

\* ---------------------------------------------------------------------------
\* Threads.  The application calls the bridge from its single foreground
\* (UI) thread; the API is also callable from a second thread.
\* ---------------------------------------------------------------------------
Foreground == "fg"
Other == "t2"
Threads == {Foreground, Other}

\* ---------------------------------------------------------------------------
\* Environment and configuration
\* ---------------------------------------------------------------------------
Unset == "<unset>"
DEFAULT_SIGNOZ_BASE_URL == "http://localhost:8080"
BadKey == "bad\nkey"
BadToken == "bad\ntoken"
GoodToken == "jwt"

\* http::HeaderValue::from_str as used by SigNozBackend::new: control
\* characters (here: a line feed) cannot be encoded.
HeaderEncodable(s) == s \notin {BadKey, BadToken}

AuthNone == [type |-> "None"]
ApiKey(name, key) == [type |-> "ApiKey", header_name |-> name, key |-> key]
BearerToken(tok) == [type |-> "BearerToken", token |-> tok]

\* std::env::var(name).ok(): the value when the variable is set to valid
\* Unicode; a variable that is not set, or one whose value is not valid
\* Unicode (NotUnicode stands for such a value), gives nothing.
NotUnicode == "<not unicode>"
var_ok(value) == value \notin {Unset, NotUnicode}

signoz_config_from_env(e) ==
  LET base_url == IF var_ok(e.SIGNOZ_BASE_URL) /\ e.SIGNOZ_BASE_URL # ""
                  THEN e.SIGNOZ_BASE_URL ELSE DEFAULT_SIGNOZ_BASE_URL
      auth == IF var_ok(e.SIGNOZ_API_KEY) /\ e.SIGNOZ_API_KEY # ""
              THEN ApiKey("SIGNOZ-API-KEY", e.SIGNOZ_API_KEY)
              ELSE AuthNone
  IN [base_url |-> base_url, auth |-> auth, timeout_secs |-> 30]

NoCreds == <<>>
login_credentials_from_env_either(e) ==
  IF ~var_ok(e.SIGNOZ_EMAIL) /\ ~var_ok(e.SIGNOZ_PASSWORD) THEN NoCreds
  ELSE IF e.SIGNOZ_EMAIL = "" /\ e.SIGNOZ_PASSWORD = "" THEN NoCreds
  ELSE <<e.SIGNOZ_EMAIL, e.SIGNOZ_PASSWORD>>

login_credentials_from_env(e) ==
  IF ~var_ok(e.SIGNOZ_EMAIL) \/ ~var_ok(e.SIGNOZ_PASSWORD) THEN NoCreds
  ELSE IF e.SIGNOZ_EMAIL = "" \/ e.SIGNOZ_PASSWORD = "" THEN NoCreds
  ELSE <<e.SIGNOZ_EMAIL, e.SIGNOZ_PASSWORD>>

\* SigNozBackend::new / create_backend: TRUE when construction succeeds.
\* (The HTTP client builder itself is taken to succeed.)
SigNozBackend_new(cfg) ==
  IF cfg.base_url = "" THEN FALSE
  ELSE CASE cfg.auth.type = "ApiKey" ->
              HeaderEncodable(cfg.auth.header_name) /\ HeaderEncodable(cfg.auth.key)
         [] cfg.auth.type = "BearerToken" -> HeaderEncodable(cfg.auth.token)
         [] OTHER -> TRUE

create_backend(cfg) == SigNozBackend_new(cfg)

\* Environments the bridge is started in.
BridgeEnvs ==
  { [SIGNOZ_BASE_URL |-> Unset, SIGNOZ_API_KEY |-> k,
     SIGNOZ_EMAIL |-> m, SIGNOZ_PASSWORD |-> "pass123"] :
      k \in {Unset, "my-secret", BadKey}, m \in {Unset, "user@example.com"} }

\* ---------------------------------------------------------------------------
\* State
\* ---------------------------------------------------------------------------
VARIABLES
  env,                       \* the process environment
  SIGNOZ_RUNTIME,            \* TRUE when the marker is Some
  SIGNOZ_SENDER,             \* "none", or the thread whose channel is installed
  PENDING_SIGNOZ_RESPONSES,  \* the response buffer
  SIGNOZ_CONNECTION_STATUS,
  SIGNOZ_CONFIGURED,
  ipc,        \* per calling thread: position inside init_signoz_from_env
  ret,        \* per calling thread: "none", or what its last init call returned
  config,     \* per calling thread: config it read from the environment
  creds,      \* per calling thread: login credentials it read
  channel,    \* per calling thread: the queue of the request channel it created
  created,    \* number of request channels and background contexts created
  bpc,        \* per spawned context: position of the background thread
  final_config, \* per context: the config handed to create_backend
  cur,        \* per context: the request being processed
  outcome,    \* per context: result of the backend call being processed
  logins,     \* per context: number of login round-trips performed
  login_result, \* per context: "none", "err", or the token signoz_login returned
  nextId,     \* number of request_* calls issued so far
  sent,       \* history: requests handed to a sender, in order
  pushed,     \* history: every response pushed, in order
  drained,    \* history: concatenation of all drains
  takeLog,    \* results of the drains since the last push (last two kept)
  observed,   \* last value read by get_connection_status / is_signoz_configured
  panicked,   \* TRUE when a foreground call panicked
  app,        \* the application: its startup position and the traces panel
  calc        \* the evaluation of a pure function: its input and its result

vars == <<env, SIGNOZ_RUNTIME, SIGNOZ_SENDER, PENDING_SIGNOZ_RESPONSES,
          SIGNOZ_CONNECTION_STATUS, SIGNOZ_CONFIGURED, ipc, ret, config, creds,
          channel, created, bpc, final_config, cur, outcome, logins, login_result,
          nextId, sent, pushed, drained, takeLog, observed, panicked, app, calc>>

statics == <<SIGNOZ_RUNTIME, SIGNOZ_SENDER, PENDING_SIGNOZ_RESPONSES,
             SIGNOZ_CONNECTION_STATUS, SIGNOZ_CONFIGURED>>
initLocals == <<ipc, ret, config, creds, created>>
bgLocals == <<bpc, final_config, cur, outcome, logins, login_result>>
history == <<nextId, sent, pushed, drained, takeLog, observed, panicked>>
bridge == <<env, statics, initLocals, channel, bgLocals, history, app>>

NoRequest == [id |-> 0, kind |-> "none"]
NoConfig == [base_url |-> "", auth |-> AuthNone, timeout_secs |-> 0]

\* No pure function is being evaluated.
NoCalc == [op |-> "none"]

\* The application before handle_startup: the traces panel is Idle
\* (TracesLoadingState's default).
AppStart == [pc |-> "startup", signoz_available |-> FALSE,
             traces_loaded_once |-> FALSE, loading_state |-> "Idle"]

\* The statics and the per-thread locals before the first API call.
BridgeStart ==
  /\ SIGNOZ_RUNTIME = FALSE
  /\ SIGNOZ_SENDER = "none"
  /\ PENDING_SIGNOZ_RESPONSES = <<>>
  /\ SIGNOZ_CONNECTION_STATUS = "Unknown"
  /\ SIGNOZ_CONFIGURED = FALSE
  /\ ipc = [t \in Threads |-> "idle"]
  /\ ret = [t \in Threads |-> "none"]
  /\ config = [t \in Threads |-> NoConfig]
  /\ creds = [t \in Threads |-> NoCreds]
  /\ channel = [t \in Threads |-> <<>>]
  /\ created = [channels |-> 0, contexts |-> 0]
  /\ bpc = [t \in Threads |-> "none"]
  /\ final_config = [t \in Threads |-> NoConfig]
  /\ cur = [t \in Threads |-> NoRequest]
  /\ outcome = [t \in Threads |-> "none"]
  /\ logins = [t \in Threads |-> 0]
  /\ login_result = [t \in Threads |-> "none"]
  /\ nextId = 0
  /\ sent = <<>>
  /\ pushed = <<>>
  /\ drained = <<>>
  /\ takeLog = <<>>
  /\ observed = [status |-> "Unknown", configured |-> FALSE]
  /\ panicked = FALSE
  /\ app = AppStart

Init ==
  /\ env \in BridgeEnvs
  /\ calc = NoCalc
  /\ BridgeStart

\* ---------------------------------------------------------------------------
\* Requests and responses
\* ---------------------------------------------------------------------------
HealthCheck(i) == [id |-> i, kind |-> "HealthCheck"]
QueryTraces(i) == [id |-> i, kind |-> "QueryTraces"]

\* `req` is the id of the request a response answers (0: none); the code's
\* responses do not carry it, it is kept to state the claims.
HealthOk(i) == [kind |-> "HealthOk", req |-> i, text |-> ""]
HealthError(i, msg) == [kind |-> "HealthError", req |-> i, text |-> msg]
Traces(i) == [kind |-> "Traces", req |-> i, text |-> ""]
TracesError(i) == [kind |-> "TracesError", req |-> i, text |-> "query failed"]

\* ---------------------------------------------------------------------------
\* Internal helpers
\* ---------------------------------------------------------------------------
push_response(resp) ==
  /\ PENDING_SIGNOZ_RESPONSES' = Append(PENDING_SIGNOZ_RESPONSES, resp)
  /\ pushed' = Append(pushed, resp)
  /\ takeLog' = <<>>

\* The receiver of thread w's channel is gone once its context has returned.
ReceiverDropped(w) == bpc[w] \in {"returned", "exited", "panicked"}

send_request(req) ==
  /\ IF SIGNOZ_SENDER = "none"
     THEN UNCHANGED <<channel, sent>>
     ELSE /\ sent' = Append(sent, req)
          /\ IF ReceiverDropped(SIGNOZ_SENDER)
             THEN UNCHANGED channel   \* send returns Err, which is discarded
             ELSE channel' = [channel EXCEPT ![SIGNOZ_SENDER] = Append(@, req)]
  /\ UNCHANGED panicked

\* ---------------------------------------------------------------------------
\* Public API called by thread t
\* ---------------------------------------------------------------------------
\* Mutant: a health check requested while no sender is installed is
\* answered with an error.
request_health_check_unsent_error(t) ==
  /\ ipc[t] = "idle"
  /\ nextId < MaxRequests
  /\ nextId' = nextId + 1
  /\ send_request(HealthCheck(nextId + 1))
  /\ IF SIGNOZ_SENDER = "none"
     THEN push_response(HealthError(nextId + 1, "not initialised"))
     ELSE UNCHANGED <<PENDING_SIGNOZ_RESPONSES, pushed, takeLog>>
  /\ UNCHANGED <<env, calc, app, SIGNOZ_RUNTIME, SIGNOZ_SENDER, SIGNOZ_CONNECTION_STATUS,
                 SIGNOZ_CONFIGURED, initLocals, bgLocals, drained, observed>>

request_health_check(t) ==
  /\ ipc[t] = "idle"
  /\ nextId < MaxRequests
  /\ nextId' = nextId + 1
  /\ send_request(HealthCheck(nextId + 1))
  /\ UNCHANGED <<env, calc, app, statics, initLocals, bgLocals, pushed, drained, takeLog, observed>>

request_traces(t) ==
  /\ ipc[t] = "idle"
  /\ nextId < MaxRequests
  /\ nextId' = nextId + 1
  /\ send_request(QueryTraces(nextId + 1))
  /\ UNCHANGED <<env, calc, app, statics, initLocals, bgLocals, pushed, drained, takeLog, observed>>

\* Mutant: the drain hands out only the oldest response and discards the rest.
take_first_only(t) ==
  /\ ipc[t] = "idle"
  /\ drained' = drained \o (IF PENDING_SIGNOZ_RESPONSES = <<>> THEN <<>>
                             ELSE <<Head(PENDING_SIGNOZ_RESPONSES)>>)
  /\ takeLog' = IF Len(takeLog) < 2
                THEN Append(takeLog, PENDING_SIGNOZ_RESPONSES)
                ELSE <<takeLog[2], PENDING_SIGNOZ_RESPONSES>>
  /\ PENDING_SIGNOZ_RESPONSES' = <<>>
  /\ UNCHANGED <<env, calc, app, SIGNOZ_RUNTIME, SIGNOZ_SENDER, SIGNOZ_CONNECTION_STATUS,
                 SIGNOZ_CONFIGURED, initLocals, channel, bgLocals, nextId, sent,
                 pushed, observed, panicked>>

\* Mutant: the drain clones the buffer instead of taking it.
take_clone(t) ==
  /\ ipc[t] = "idle"
  /\ drained' = drained \o PENDING_SIGNOZ_RESPONSES
  /\ takeLog' = IF Len(takeLog) < 2
                THEN Append(takeLog, PENDING_SIGNOZ_RESPONSES)
                ELSE <<takeLog[2], PENDING_SIGNOZ_RESPONSES>>
  /\ UNCHANGED <<env, calc, app, statics, initLocals, channel, bgLocals, nextId, sent,
                 pushed, observed, panicked>>

take_signoz_responses(t) ==
  /\ ipc[t] = "idle"
  /\ drained' = drained \o PENDING_SIGNOZ_RESPONSES
  /\ takeLog' = IF Len(takeLog) < 2
                THEN Append(takeLog, PENDING_SIGNOZ_RESPONSES)
                ELSE <<takeLog[2], PENDING_SIGNOZ_RESPONSES>>
  /\ PENDING_SIGNOZ_RESPONSES' = <<>>
  /\ UNCHANGED <<env, calc, app, SIGNOZ_RUNTIME, SIGNOZ_SENDER, SIGNOZ_CONNECTION_STATUS,
                 SIGNOZ_CONFIGURED, initLocals, channel, bgLocals, nextId, sent,
                 pushed, observed, panicked>>

get_connection_status(t) ==
  /\ ipc[t] = "idle"
  /\ observed' = [observed EXCEPT !.status = SIGNOZ_CONNECTION_STATUS]
  /\ UNCHANGED <<env, calc, app, statics, initLocals, channel, bgLocals, nextId, sent,
                 pushed, drained, takeLog, panicked>>

is_signoz_configured(t) ==
  /\ ipc[t] = "idle"
  /\ observed' = [observed EXCEPT !.configured = SIGNOZ_CONFIGURED]
  /\ UNCHANGED <<env, calc, app, statics, initLocals, channel, bgLocals, nextId, sent,
                 pushed, drained, takeLog, panicked>>

\* ---------------------------------------------------------------------------
\* init_signoz_from_env, called by thread t, one step per critical section
\* ---------------------------------------------------------------------------
\* "Already initialised?": the marker is Some, return the configured flag.
InitAlready(t) ==
  /\ ipc[t] = "idle"
  /\ SIGNOZ_RUNTIME
  /\ ret' = [ret EXCEPT ![t] = IF SIGNOZ_CONFIGURED THEN "true" ELSE "false"]
  /\ UNCHANGED <<env, calc, app, statics, ipc, config, creds, created, channel, bgLocals, history>>

\* The marker is None: the lock is released and the environment is read.
InitCheck(t) ==
  /\ ipc[t] = "idle"
  /\ ~SIGNOZ_RUNTIME
  /\ config' = [config EXCEPT ![t] = signoz_config_from_env(env)]
  /\ creds' = [creds EXCEPT ![t] = login_credentials_from_env(env)]
  /\ ipc' = [ipc EXCEPT ![t] = "checked"]
  /\ UNCHANGED <<env, calc, app, statics, ret, created, channel, bgLocals, history>>

\* "Mark as initialised immediately": the marker is set without a re-check.
InitMark(t) ==
  /\ ipc[t] = "checked"
  /\ SIGNOZ_RUNTIME' = TRUE
  /\ ipc' = [ipc EXCEPT ![t] = "marked"]
  /\ UNCHANGED <<env, calc, app, SIGNOZ_SENDER, PENDING_SIGNOZ_RESPONSES,
                 SIGNOZ_CONNECTION_STATUS, SIGNOZ_CONFIGURED, ret, config, creds,
                 created, channel, bgLocals, history>>

InitConfigured(t) ==
  /\ ipc[t] = "marked"
  /\ SIGNOZ_CONFIGURED' = TRUE
  /\ ipc' = [ipc EXCEPT ![t] = "configured"]
  /\ UNCHANGED <<env, calc, app, SIGNOZ_RUNTIME, SIGNOZ_SENDER, PENDING_SIGNOZ_RESPONSES,
                 SIGNOZ_CONNECTION_STATUS, ret, config, creds, created, channel,
                 bgLocals, history>>

\* unbounded_channel() and the installation of its sender (the sender that
\* was installed before is dropped).
InitInstall(t) ==
  /\ ipc[t] = "configured"
  /\ channel' = [channel EXCEPT ![t] = <<>>]
  /\ created' = [created EXCEPT !.channels = @ + 1]
  /\ SIGNOZ_SENDER' = t
  /\ ipc' = [ipc EXCEPT ![t] = "installed"]
  /\ UNCHANGED <<env, calc, app, SIGNOZ_RUNTIME, PENDING_SIGNOZ_RESPONSES,
                 SIGNOZ_CONNECTION_STATUS, SIGNOZ_CONFIGURED, ret, config, creds,
                 bgLocals, history>>

\* std::thread::spawn of the background context, then `true` is returned.
InitSpawn(t) ==
  /\ ipc[t] = "installed"
  /\ bpc' = [bpc EXCEPT ![t] = "start"]
  /\ created' = [created EXCEPT !.contexts = @ + 1]
  /\ ret' = [ret EXCEPT ![t] = "true"]
  /\ ipc' = [ipc EXCEPT ![t] = "idle"]
  /\ UNCHANGED <<env, calc, app, statics, config, creds, channel, final_config, cur, outcome,
                 logins, login_result, history>>

\* ---------------------------------------------------------------------------
\* The background context spawned by thread w
\* ---------------------------------------------------------------------------
\* Mutant: the login is attempted whenever credentials are present, also
\* when an API key is configured.
NeedsLogin_any_auth(w) == creds[w] # NoCreds

NeedsLogin(w) == creds[w] # NoCreds /\ config[w].auth.type = "None"

\* No credentials, or an API key is configured: no login round-trip.
BgNoLogin(w) ==
  /\ bpc[w] = "start"
  /\ ~NeedsLogin(w)
  /\ final_config' = [final_config EXCEPT ![w] = config[w]]
  /\ bpc' = [bpc EXCEPT ![w] = "create"]
  /\ UNCHANGED <<env, calc, app, statics, initLocals, channel, cur, outcome, logins,
                 login_result, history>>

\* signoz_login returns Ok(token): the auth method is upgraded.
BgLoginOk(w) ==
  /\ bpc[w] = "start"
  /\ NeedsLogin(w)
  /\ \E token \in {GoodToken, BadToken} :
       /\ login_result' = [login_result EXCEPT ![w] = token]
       /\ final_config' = [final_config EXCEPT ![w] =
                            [base_url |-> config[w].base_url,
                             auth |-> BearerToken(token),
                             timeout_secs |-> config[w].timeout_secs]]
  /\ logins' = [logins EXCEPT ![w] = @ + 1]
  /\ bpc' = [bpc EXCEPT ![w] = "create"]
  /\ UNCHANGED <<env, calc, app, statics, initLocals, channel, cur, outcome, history>>

\* signoz_login returns Err: the error is queued ...
BgLoginErr(w) ==
  /\ bpc[w] = "start"
  /\ NeedsLogin(w)
  /\ logins' = [logins EXCEPT ![w] = @ + 1]
  /\ login_result' = [login_result EXCEPT ![w] = "err"]
  /\ push_response(HealthError(0, "Login failed"))
  /\ bpc' = [bpc EXCEPT ![w] = "login_failed"]
  /\ UNCHANGED <<env, calc, app, SIGNOZ_RUNTIME, SIGNOZ_SENDER, SIGNOZ_CONNECTION_STATUS,
                 SIGNOZ_CONFIGURED, initLocals, channel, final_config, cur,
                 outcome, nextId, sent, drained, observed, panicked>>

\* Mutant: a failed login ends the background context.
BgLoginErrStatus_fatal(w) ==
  /\ bpc[w] = "login_failed"
  /\ SIGNOZ_CONNECTION_STATUS' = "Error"
  /\ bpc' = [bpc EXCEPT ![w] = "returned"]
  /\ UNCHANGED <<env, calc, app, SIGNOZ_RUNTIME, SIGNOZ_SENDER, PENDING_SIGNOZ_RESPONSES,
                 SIGNOZ_CONFIGURED, initLocals, channel, final_config, cur,
                 outcome, logins, login_result, history>>

\* ... then the status is set, and the original config is kept.
BgLoginErrStatus(w) ==
  /\ bpc[w] = "login_failed"
  /\ SIGNOZ_CONNECTION_STATUS' = "Error"
  /\ final_config' = [final_config EXCEPT ![w] = config[w]]
  /\ bpc' = [bpc EXCEPT ![w] = "create"]
  /\ UNCHANGED <<env, calc, app, SIGNOZ_RUNTIME, SIGNOZ_SENDER, PENDING_SIGNOZ_RESPONSES,
                 SIGNOZ_CONFIGURED, initLocals, channel, cur, outcome, logins, login_result,
                 history>>

BgCreateOk(w) ==
  /\ bpc[w] = "create"
  /\ create_backend(final_config[w])
  /\ bpc' = [bpc EXCEPT ![w] = "loop"]
  /\ UNCHANGED <<env, calc, app, statics, initLocals, channel, final_config, cur, outcome,
                 logins, login_result, history>>

\* create_backend fails: the error is queued ...
BgCreateErr(w) ==
  /\ bpc[w] = "create"
  /\ ~create_backend(final_config[w])
  /\ push_response(HealthError(0, "ConnectionFailed"))
  /\ bpc' = [bpc EXCEPT ![w] = "create_failed"]
  /\ UNCHANGED <<env, calc, app, SIGNOZ_RUNTIME, SIGNOZ_SENDER, SIGNOZ_CONNECTION_STATUS,
                 SIGNOZ_CONFIGURED, initLocals, channel, final_config, cur,
                 outcome, logins, login_result, nextId, sent, drained, observed,
                 panicked>>

\* Mutant: after a failed construction the context enters the request loop.
BgCreateErrStatus_continue(w) ==
  /\ bpc[w] = "create_failed"
  /\ SIGNOZ_CONNECTION_STATUS' = "Error"
  /\ bpc' = [bpc EXCEPT ![w] = "loop"]
  /\ UNCHANGED <<env, calc, app, SIGNOZ_RUNTIME, SIGNOZ_SENDER, PENDING_SIGNOZ_RESPONSES,
                 SIGNOZ_CONFIGURED, initLocals, channel, final_config, cur,
                 outcome, logins, login_result, history>>

\* ... then the status is set and the context returns.
BgCreateErrStatus(w) ==
  /\ bpc[w] = "create_failed"
  /\ SIGNOZ_CONNECTION_STATUS' = "Error"
  /\ bpc' = [bpc EXCEPT ![w] = "returned"]
  /\ UNCHANGED <<env, calc, app, SIGNOZ_RUNTIME, SIGNOZ_SENDER, PENDING_SIGNOZ_RESPONSES,
                 SIGNOZ_CONFIGURED, initLocals, channel, final_config, cur,
                 outcome, logins, login_result, history>>

\* Mutant: the newest request of the channel is received first.
BgRecv_newest(w) ==
  /\ bpc[w] = "loop"
  /\ channel[w] # <<>>
  /\ cur' = [cur EXCEPT ![w] = channel[w][Len(channel[w])]]
  /\ channel' = [channel EXCEPT ![w] = SubSeq(@, 1, Len(@) - 1)]
  /\ bpc' = [bpc EXCEPT ![w] = "call"]
  /\ UNCHANGED <<env, calc, app, statics, initLocals, final_config, outcome, logins,
                 login_result, history>>

\* receiver.recv() yields the oldest request of the channel.
BgRecv(w) ==
  /\ bpc[w] = "loop"
  /\ channel[w] # <<>>
  /\ cur' = [cur EXCEPT ![w] = Head(channel[w])]
  /\ channel' = [channel EXCEPT ![w] = Tail(@)]
  /\ bpc' = [bpc EXCEPT ![w] = "call"]
  /\ UNCHANGED <<env, calc, app, statics, initLocals, final_config, outcome, logins,
                 login_result, history>>

\* receiver.recv() yields None: the channel is empty and its sender was
\* dropped (replaced in SIGNOZ_SENDER by another thread's sender).
BgRecvClosed(w) ==
  /\ bpc[w] = "loop"
  /\ channel[w] = <<>>
  /\ SIGNOZ_SENDER # w
  /\ bpc' = [bpc EXCEPT ![w] = "exited"]
  /\ UNCHANGED <<env, calc, app, statics, initLocals, channel, final_config, cur, outcome,
                 logins, login_result, history>>

\* Mutant: a successful health check leaves the status as it was.
BgHealthStatus_err_only(w) ==
  /\ bpc[w] = "call"
  /\ cur[w].kind = "HealthCheck"
  /\ \E ok \in BOOLEAN :
       /\ outcome' = [outcome EXCEPT ![w] = IF ok THEN "ok" ELSE "err"]
       /\ SIGNOZ_CONNECTION_STATUS' =
            IF ok THEN SIGNOZ_CONNECTION_STATUS ELSE "Error"
  /\ bpc' = [bpc EXCEPT ![w] = "push"]
  /\ UNCHANGED <<env, calc, app, SIGNOZ_RUNTIME, SIGNOZ_SENDER, PENDING_SIGNOZ_RESPONSES,
                 SIGNOZ_CONFIGURED, initLocals, channel, final_config, cur,
                 logins, login_result, history>>

\* Mutant: a failed health check leaves the status as it was.
BgHealthStatus_ok_only(w) ==
  /\ bpc[w] = "call"
  /\ cur[w].kind = "HealthCheck"
  /\ \E ok \in BOOLEAN :
       /\ outcome' = [outcome EXCEPT ![w] = IF ok THEN "ok" ELSE "err"]
       /\ SIGNOZ_CONNECTION_STATUS' =
            IF ok THEN "Connected" ELSE SIGNOZ_CONNECTION_STATUS
  /\ bpc' = [bpc EXCEPT ![w] = "push"]
  /\ UNCHANGED <<env, calc, app, SIGNOZ_RUNTIME, SIGNOZ_SENDER, PENDING_SIGNOZ_RESPONSES,
                 SIGNOZ_CONFIGURED, initLocals, channel, final_config, cur,
                 logins, login_result, history>>

\* HealthCheck arm: the backend call returns, the status is written ...
BgHealthStatus(w) ==
  /\ bpc[w] = "call"
  /\ cur[w].kind = "HealthCheck"
  /\ \E ok \in BOOLEAN :
       /\ outcome' = [outcome EXCEPT ![w] = IF ok THEN "ok" ELSE "err"]
       /\ SIGNOZ_CONNECTION_STATUS' = IF ok THEN "Connected" ELSE "Error"
  /\ bpc' = [bpc EXCEPT ![w] = "push"]
  /\ UNCHANGED <<env, calc, app, SIGNOZ_RUNTIME, SIGNOZ_SENDER, PENDING_SIGNOZ_RESPONSES,
                 SIGNOZ_CONFIGURED, initLocals, channel, final_config, cur,
                 logins, login_result, history>>

\* ... then the response is pushed.
BgHealthPush(w) ==
  /\ bpc[w] = "push"
  /\ push_response(IF outcome[w] = "ok" THEN HealthOk(cur[w].id)
                   ELSE HealthError(cur[w].id, "health check failed"))
  /\ outcome' = [outcome EXCEPT ![w] = "none"]
  /\ cur' = [cur EXCEPT ![w] = NoRequest]
  /\ bpc' = [bpc EXCEPT ![w] = "loop"]
  /\ UNCHANGED <<env, calc, app, SIGNOZ_RUNTIME, SIGNOZ_SENDER, SIGNOZ_CONNECTION_STATUS,
                 SIGNOZ_CONFIGURED, initLocals, channel, final_config, logins,
                 login_result, nextId, sent, drained, observed, panicked>>

\* Mutant: a failed trace query is reported as a failed health check.
BgTraces_health_error(w) ==
  /\ bpc[w] = "call"
  /\ cur[w].kind = "QueryTraces"
  /\ \E ok \in BOOLEAN :
       push_response(IF ok THEN Traces(cur[w].id)
                     ELSE HealthError(cur[w].id, "query failed"))
  /\ cur' = [cur EXCEPT ![w] = NoRequest]
  /\ bpc' = [bpc EXCEPT ![w] = "loop"]
  /\ UNCHANGED <<env, calc, app, SIGNOZ_RUNTIME, SIGNOZ_SENDER, SIGNOZ_CONNECTION_STATUS,
                 SIGNOZ_CONFIGURED, initLocals, channel, final_config, outcome,
                 logins, login_result, nextId, sent, drained, observed, panicked>>

\* Mutant: a failed trace query records the Error status.
BgTraces_error_status(w) ==
  /\ bpc[w] = "call"
  /\ cur[w].kind = "QueryTraces"
  /\ \E ok \in BOOLEAN :
       /\ push_response(IF ok THEN Traces(cur[w].id) ELSE TracesError(cur[w].id))
       /\ SIGNOZ_CONNECTION_STATUS' =
            IF ok THEN SIGNOZ_CONNECTION_STATUS ELSE "Error"
  /\ cur' = [cur EXCEPT ![w] = NoRequest]
  /\ bpc' = [bpc EXCEPT ![w] = "loop"]
  /\ UNCHANGED <<env, calc, app, SIGNOZ_RUNTIME, SIGNOZ_SENDER,
                 SIGNOZ_CONFIGURED, initLocals, channel, final_config, outcome,
                 logins, login_result, nextId, sent, drained, observed, panicked>>

\* Mutant: a failed trace query pushes no response.
BgTraces_drop_error(w) ==
  /\ bpc[w] = "call"
  /\ cur[w].kind = "QueryTraces"
  /\ \E ok \in BOOLEAN :
       IF ok THEN push_response(Traces(cur[w].id))
       ELSE UNCHANGED <<PENDING_SIGNOZ_RESPONSES, pushed, takeLog>>
  /\ cur' = [cur EXCEPT ![w] = NoRequest]
  /\ bpc' = [bpc EXCEPT ![w] = "loop"]
  /\ UNCHANGED <<env, calc, app, SIGNOZ_RUNTIME, SIGNOZ_SENDER, SIGNOZ_CONNECTION_STATUS,
                 SIGNOZ_CONFIGURED, initLocals, channel, final_config, outcome,
                 logins, login_result, nextId, sent, drained, observed, panicked>>

\* QueryTraces arm: the backend call returns and the response is pushed.
BgTraces(w) ==
  /\ bpc[w] = "call"
  /\ cur[w].kind = "QueryTraces"
  /\ \E ok \in BOOLEAN :
       push_response(IF ok THEN Traces(cur[w].id) ELSE TracesError(cur[w].id))
  /\ cur' = [cur EXCEPT ![w] = NoRequest]
  /\ bpc' = [bpc EXCEPT ![w] = "loop"]
  /\ UNCHANGED <<env, calc, app, SIGNOZ_RUNTIME, SIGNOZ_SENDER, SIGNOZ_CONNECTION_STATUS,
                 SIGNOZ_CONFIGURED, initLocals, channel, final_config, outcome,
                 logins, login_result, nextId, sent, drained, observed, panicked>>

\* QueryTraces arm: the backend call panics while it reads the response
\* (parse_iso8601_to_ms slicing a fraction inside a character, client.rs:400).
\* The panic unwinds the background thread: nothing is pushed and the
\* receiver is dropped.
BgTracesPanic(w) ==
  /\ bpc[w] = "call"
  /\ cur[w].kind = "QueryTraces"
  /\ bpc' = [bpc EXCEPT ![w] = "panicked"]
  /\ UNCHANGED <<env, calc, app, statics, initLocals, channel, final_config, cur, outcome,
                 logins, login_result, history>>

\* ---------------------------------------------------------------------------
\* Specifications
\* ---------------------------------------------------------------------------
Api(t) ==
  \/ InitAlready(t) \/ InitCheck(t) \/ InitMark(t) \/ InitConfigured(t)
  \/ InitInstall(t) \/ InitSpawn(t)
  \/ request_health_check(t) \/ request_traces(t) \/ take_signoz_responses(t)
  \/ get_connection_status(t) \/ is_signoz_configured(t)

Background(w) ==
  \/ BgNoLogin(w) \/ BgLoginOk(w) \/ BgLoginErr(w) \/ BgLoginErrStatus(w)
  \/ BgCreateOk(w) \/ BgCreateErr(w) \/ BgCreateErrStatus(w)
  \/ BgRecv(w) \/ BgHealthStatus(w) \/ BgHealthPush(w) \/ BgTraces(w)
  \/ BgTracesPanic(w)

\* The application: one foreground thread and the context it spawns.
Next == Api(Foreground) \/ Background(Foreground)

Spec == Init /\ [][Next]_vars

\* The API called from two threads.
Requests(t) == request_health_check(t) \/ request_traces(t)

NextConc ==
  \/ \E t \in Threads :
        \/ InitAlready(t) \/ InitCheck(t) \/ InitMark(t) \/ InitConfigured(t)
        \/ InitInstall(t) \/ InitSpawn(t)
        \/ nextId < MaxConcRequests /\ Requests(t)
        \/ take_signoz_responses(t)
        \/ get_connection_status(t) \/ is_signoz_configured(t)
  \/ \E w \in Threads : Background(w) \/ BgRecvClosed(w)

SpecConc == Init /\ [][NextConc]_vars

\* The background thread keeps running and every HTTP round-trip returns:
\* the backend calls by the configured timeout, the login round-trip (whose
\* client sets no timeout) by assumption.  The foreground is free to stop.
SpecFair == Spec /\ WF_vars(Background(Foreground))

\* ---------------------------------------------------------------------------
\* Properties
\* ---------------------------------------------------------------------------
FG == Foreground

\* The responses pushed by the request loop (those answering a request).
LoopResponses == SelectSeq(pushed, LAMBDA r : r.req # 0)
IsSent(i) == \E k \in 1..Len(sent) : sent[k].id = i
NumResponses(i) == Cardinality({k \in 1..Len(pushed) : pushed[k].req = i})
Suffix(q, n) == SubSeq(q, Len(q) - n + 1, Len(q))

\* C1: under every interleaving of pushes and drains, the drains so far
\* followed by the buffer are exactly the responses pushed so far, in push
\* order, each once.
C1_NoLossNoDup == drained \o PENDING_SIGNOZ_RESPONSES = pushed

C1_Witness ==
  /\ Len(drained) >= 1
  /\ Len(PENDING_SIGNOZ_RESPONSES) >= 2
  /\ Len(takeLog) = 0

\* C2: however the calls of init_signoz_from_env interleave, exactly one
\* request channel and one background context are ever created.
C2_SingleInit == created.channels <= 1 /\ created.contexts <= 1

\* C5: every call of init_signoz_from_env returns true, also one that
\* overlaps with an earlier call.
C5_InitReturnsTrue == \A t \in Threads : ret[t] # "false"

\* C6: a drain returns all pending responses in push order and empties the
\* buffer; a second drain with no push in between returns the empty sequence.
C6_DrainEmpties ==
  /\ Len(takeLog) >= 1 =>
       /\ PENDING_SIGNOZ_RESPONSES = <<>>
       /\ drained = pushed
       /\ Len(takeLog[1]) <= Len(pushed)
       /\ Suffix(pushed, Len(takeLog[1])) = takeLog[1]
  /\ Len(takeLog) = 2 => takeLog[2] = <<>>

C6_Witness ==
  /\ Len(takeLog) = 2
  /\ Len(takeLog[1]) >= 2
  /\ takeLog[2] = <<>>

Ids == 1..MaxRequests
CreateFailed == \E k \in 1..Len(pushed) : pushed[k].text = "ConnectionFailed"
LoginFailed == login_result[FG] = "err"
Constructed == bpc[FG] \in {"loop", "call", "push", "exited", "panicked"}

BackendCallPanicked == bpc[FG] = "panicked"

KindMatches(q, r) ==
  \/ q.kind = "HealthCheck" /\ r.kind \in {"HealthOk", "HealthError"}
  \/ q.kind = "QueryTraces" /\ r.kind \in {"Traces", "TracesError"}

\* Number of requests the loop has taken from its channel.
Received == Len(sent) - Len(channel[FG])

\* C4: the loop answers the requests in the order they were sent, each with
\* one response of the kind of the request, and has answered a request
\* before it receives the next.
C4_FifoOneAtATime ==
  /\ Len(LoopResponses) <= Len(sent)
  /\ \A k \in 1..Len(LoopResponses) :
       /\ LoopResponses[k].req = sent[k].id
       /\ KindMatches(sent[k], LoopResponses[k])
  /\ bpc[FG] = "loop" => Len(LoopResponses) = Received
  /\ bpc[FG] \in {"call", "push"} =>
       /\ Len(LoopResponses) = Received - 1
       /\ cur[FG] = sent[Received]

C4_Witness ==
  /\ Len(LoopResponses) = 3
  /\ LoopResponses[1].kind = "HealthError"
  /\ LoopResponses[2].kind = "Traces"
  /\ LoopResponses[3].kind = "HealthOk"
  /\ pushed[1].text = "Login failed"

EnvSet(v) == v # Unset /\ v # ""
LoginExpected ==
  /\ EnvSet(env.SIGNOZ_EMAIL) /\ EnvSet(env.SIGNOZ_PASSWORD)
  /\ ~EnvSet(env.SIGNOZ_API_KEY)

\* C7: the login is performed exactly when credentials are supplied and no
\* API key is configured, at most once, before the backend is constructed
\* and before any request is received; on success the backend gets
\* BearerToken auth with the returned token, on failure the original config,
\* and with an API key there is no login and the backend gets ApiKey auth.
C7_LoginOnceBeforeBackend ==
  /\ logins[FG] <= 1
  /\ bpc[FG] \in {"none", "start", "login_failed"} =>
       cur[FG] = NoRequest /\ LoopResponses = <<>> /\ Received = 0
  /\ bpc[FG] \in {"none", "start"} => logins[FG] = 0
  /\ bpc[FG] \notin {"none", "start"} =>
       /\ logins[FG] = (IF LoginExpected THEN 1 ELSE 0)
       /\ (login_result[FG] # "none") = LoginExpected
  /\ bpc[FG] \notin {"none", "start", "login_failed"} =>
       /\ login_result[FG] \notin {"none", "err"} =>
            final_config[FG].auth = BearerToken(login_result[FG])
       /\ EnvSet(env.SIGNOZ_API_KEY) =>
            final_config[FG].auth = ApiKey("SIGNOZ-API-KEY", env.SIGNOZ_API_KEY)
       /\ login_result[FG] = "err" => final_config[FG].auth = AuthNone

C7_Witness ==
  /\ Constructed
  /\ login_result[FG] = GoodToken
  /\ final_config[FG].auth = BearerToken(GoodToken)
  /\ Len(LoopResponses) >= 1

LoginFailedResponses ==
  {k \in 1..Len(pushed) :
     pushed[k].kind = "HealthError" /\ pushed[k].text = "Login failed"}

\* After a failed login: one "Login failed" HealthError, the backend
\* constructed with the original unauthenticated config.
LoginFailureKeepsConfig ==
  /\ [](LoginFailed =>
          /\ Cardinality(LoginFailedResponses) = 1
          /\ ~CreateFailed /\ bpc[FG] # "returned"
          /\ Constructed =>
               final_config[FG] = config[FG] /\ final_config[FG].auth = AuthNone)
  /\ [](~LoginFailed => LoginFailedResponses = {})
  /\ LoginFailed ~> Constructed

\* C8: a failed login queues exactly one HealthError "Login failed", the
\* backend is still constructed, with the original unauthenticated config,
\* and every request sent is then answered.
C8_LoginFailureNonFatal ==
  /\ LoginFailureKeepsConfig
  /\ \A i \in Ids : (LoginFailed /\ IsSent(i)) ~> (NumResponses(i) = 1)

\* What holds after a failed login: every request sent is answered unless a
\* backend call panics.
LoginFailureNonFatalUnlessPanic ==
  /\ LoginFailureKeepsConfig
  /\ \A i \in Ids :
       (LoginFailed /\ IsSent(i)) ~> (NumResponses(i) = 1 \/ BackendCallPanicked)

C8_Witness ==
  /\ LoginFailed
  /\ Constructed
  /\ \A i \in Ids : NumResponses(i) = 1

\* C9: after a failed backend construction the context has returned without
\* receiving a request, no request is ever answered, the status is Error
\* once the context has returned, and the foreground calls still complete.
C9_CreateFailureTerminal ==
  CreateFailed =>
    /\ bpc[FG] \in {"create_failed", "returned"}
    /\ cur[FG] = NoRequest
    /\ LoopResponses = <<>>
    /\ pushed = <<HealthError(0, "ConnectionFailed")>>
    /\ bpc[FG] = "returned" => SIGNOZ_CONNECTION_STATUS = "Error"
    /\ ~panicked

C9_Witness ==
  /\ CreateFailed
  /\ bpc[FG] = "returned"
  /\ Len(sent) = MaxRequests
  /\ Len(sent) > Len(channel[FG])
  /\ drained = pushed
  /\ Len(takeLog) = 2
  /\ observed.status = "Error"

HealthResponses ==
  SelectSeq(pushed, LAMBDA r : r.kind \in {"HealthOk", "HealthError"})
ImpliedStatus ==
  IF HealthResponses = <<>> THEN "Unknown"
  ELSE IF HealthResponses[Len(HealthResponses)].kind = "HealthOk"
       THEN "Connected" ELSE "Error"

\* C10 (as claimed): whenever no request is being processed, the status is
\* the outcome of the most recently queued health response (Unknown if none).
C10_StatusFollowsHealth ==
  bpc[FG] \notin {"call", "push"} => SIGNOZ_CONNECTION_STATUS = ImpliedStatus

\* C10 (amended): the same, whenever no request is being processed and the
\* context is not between queuing a login or construction failure and
\* recording the Error status.
C10_StatusFollowsHealthSettled ==
  bpc[FG] \notin {"call", "push", "login_failed", "create_failed"} =>
    SIGNOZ_CONNECTION_STATUS = ImpliedStatus

C10_Witness ==
  /\ bpc[FG] = "loop"
  /\ Len(HealthResponses) = 3
  /\ HealthResponses[1].text = "Login failed"
  /\ HealthResponses[2].kind = "HealthError"
  /\ HealthResponses[3].kind = "HealthOk"
  /\ SIGNOZ_CONNECTION_STATUS = "Connected"

\* ===========================================================================
\* The SigNoz HTTP client (src/src/otlp/signoz/client.rs)
\* ===========================================================================
\* The result of a fallible call: Ok with a value, or one kind of OtlpError.
Unit == [shape |-> "unit"]
Ok(v) == [kind |-> "Ok", status |-> 0, message |-> "", value |-> v]
Http == [kind |-> "Http", status |-> 0, message |-> "", value |-> Unit]
ApiError(status, message) ==
  [kind |-> "ApiError", status |-> status, message |-> message, value |-> Unit]
Deserialization ==
  [kind |-> "Deserialization", status |-> 0, message |-> "", value |-> Unit]
AuthenticationFailed(msg) ==
  [kind |-> "AuthenticationFailed", status |-> 0, message |-> msg, value |-> Unit]
Backend(msg) == [kind |-> "Backend", status |-> 0, message |-> msg, value |-> Unit]

\* Option<T>
None == [some |-> FALSE]
Some(x) == [some |-> TRUE, v |-> x]

\* A response body: whether reading it succeeds, its text, and what its text
\* deserializes into as each of the two response types (None when it is not
\* JSON, or JSON that the type rejects).
NotJson == [SigNozResponse |-> None, SigNozServicesResponse |-> None]
TextBody(text) == [readable |-> TRUE, text |-> text, parsed |-> NotJson]
JsonBody(text, parsed) == [readable |-> TRUE, text |-> text, parsed |-> parsed]
BrokenBody == [readable |-> FALSE, text |-> "", parsed |-> NotJson]

\* resp.text().await: the body text, or a transport error.
resp_text(body) == IF body.readable THEN Ok(body.text) ELSE Http
\* resp.text().await.unwrap_or_default()
resp_text_or_default(body) == IF body.readable THEN body.text ELSE ""
\* serde_json::from_str::<T>(&body) with its error converted to OtlpError
from_str(shape, body) ==
  IF body.parsed[shape].some THEN Ok(body.parsed[shape].v) ELSE Deserialization

\* What send().await produced: no response (transport failure), or a response.
NoResponse == [received |-> FALSE, status |-> 0, body |-> BrokenBody]
Response(status, body) == [received |-> TRUE, status |-> status, body |-> body]

is_success(status) == status >= 200 /\ status =< 299
StatusText(status) == "HTTP " \o ToString(status)

get_request_general_first(shape, resp) ==
  IF ~resp.received THEN Http
  ELSE IF ~is_success(resp.status)
  THEN ApiError(resp.status, resp_text_or_default(resp.body))
  ELSE IF ~resp.body.readable THEN Http
  ELSE from_str(shape, resp.body)

get_request(shape, resp) ==
  IF ~resp.received THEN Http
  ELSE IF resp.status = 401 \/ resp.status = 403
  THEN AuthenticationFailed(StatusText(resp.status))
  ELSE IF ~is_success(resp.status)
  THEN ApiError(resp.status, resp_text_or_default(resp.body))
  ELSE IF ~resp.body.readable THEN Http
  ELSE from_str(shape, resp.body)

post_request(resp) ==
  IF ~resp.received THEN Http
  ELSE IF resp.status = 401 \/ resp.status = 403
  THEN AuthenticationFailed(StatusText(resp.status))
  ELSE IF ~is_success(resp.status)
  THEN ApiError(resp.status, resp_text_or_default(resp.body))
  ELSE resp_text(resp.body)

health_check(resp) ==
  IF ~resp.received THEN Http
  ELSE IF resp.status = 401 \/ resp.status = 403
  THEN AuthenticationFailed(StatusText(resp.status))
  ELSE IF ~is_success(resp.status)
  THEN ApiError(resp.status, resp_text_or_default(resp.body))
  ELSE Ok(Unit)

send_query_success_only(resp) ==
  LET posted == post_request(resp) IN
  IF posted.kind # "Ok" THEN posted
  ELSE LET parsed == from_str("SigNozResponse", resp.body) IN
       IF parsed.kind # "Ok" THEN parsed
       ELSE IF parsed.value.status # "success"
       THEN Backend(IF parsed.value.error.some THEN parsed.value.error.v
                    ELSE "unknown error")
       ELSE parsed

\* send_query: post_request, then the envelope is deserialized from the text
\* and an envelope with status "error" becomes a Backend error.
send_query(resp) ==
  LET posted == post_request(resp) IN
  IF posted.kind # "Ok" THEN posted
  ELSE LET parsed == from_str("SigNozResponse", resp.body) IN
       IF parsed.kind # "Ok" THEN parsed
       ELSE IF parsed.value.status = "error"
       THEN Backend(IF parsed.value.error.some THEN parsed.value.error.v
                    ELSE "unknown error")
       ELSE parsed


\* The response envelope of the query endpoint (response.rs); a field that
\* the JSON leaves out takes its default.
SigNozResponse(status, data, error) ==
  [status |-> status, data |-> data, error |-> error]
SigNozServicesResponse(status, data) == [status |-> status, data |-> data]

\* The JSON text of an envelope.  Every field of both response types has a
\* default and unknown fields are skipped, so the text is also a services
\* response unless it has a "data" object, which is no list of services.
EnvelopeBody(e) ==
  JsonBody("envelope",
           [SigNozResponse |-> Some(e),
            SigNozServicesResponse |->
              IF e.data.some THEN None
              ELSE Some(SigNozServicesResponse(e.status, <<>>))])
\* The JSON text of a services response: its "data" list of services is no
\* envelope data.
ServicesBody ==
  JsonBody("services",
           [SigNozResponse |-> None,
            SigNozServicesResponse |->
              Some(SigNozServicesResponse("success", <<"frontend">>))])
NoEntries == [result |-> <<>>, new_result |-> None]

\* --- the exchanges the HTTP helpers are applied to ---
HttpStatuses == {100, 200, 201, 204, 299, 300, 301, 400, 401, 403, 404, 500}
HttpBodies ==
  { EnvelopeBody(SigNozResponse("success", Some(NoEntries), None)),
    EnvelopeBody(SigNozResponse("error", None, Some("something went wrong"))),
    ServicesBody, TextBody("<html>"), TextBody("[]"), TextBody(""), BrokenBody }
HttpExchanges ==
  {NoResponse} \cup {Response(s, b) : s \in HttpStatuses, b \in HttpBodies}

\* The bridge is idle while a pure function is evaluated.
BridgeIdle ==
  /\ env = CHOOSE e \in BridgeEnvs : TRUE
  /\ BridgeStart

Evaluate(op, input, output) ==
  /\ calc' = [op |-> op, input |-> input, out |-> output]
  /\ UNCHANGED bridge
Pending(kind) == calc.op = kind

InitHttp ==
  /\ BridgeIdle
  /\ \E r \in HttpExchanges : calc = [op |-> "exchange", input |-> r, out |-> Unit]

CallHealthCheck ==
  Pending("exchange") /\ Evaluate("health_check", calc.input, health_check(calc.input))
CallGetRequest ==
  /\ Pending("exchange")
  /\ Evaluate("get_request", calc.input,
              get_request("SigNozServicesResponse", calc.input))
CallPostRequest ==
  Pending("exchange") /\ Evaluate("post_request", calc.input, post_request(calc.input))
CallSendQuery ==
  Pending("exchange") /\ Evaluate("send_query", calc.input, send_query(calc.input))

NextHttp == CallHealthCheck \/ CallGetRequest \/ CallPostRequest \/ CallSendQuery
SpecHttp == InitHttp /\ [][NextHttp]_vars

\* The type each helper deserializes a 2xx body into ("text": none, the raw
\* text is returned; "unit": the body is not read).
ExpectedShape(op) ==
  CASE op = "health_check" -> "unit"
    [] op = "post_request" -> "text"
    [] op = "get_request" -> "SigNozServicesResponse"
    [] op = "send_query" -> "SigNozResponse"
FitsShape(op, body) ==
  ExpectedShape(op) \in {"unit", "text"} \/ body.parsed[ExpectedShape(op)].some

\* C11: for every response received in full, health_check, get_request and
\* post_request classify alike: 401 and 403 give AuthenticationFailed("HTTP
\* <status>") whatever the body; any other status outside 200..299 gives
\* ApiError with that status and the body; a 2xx body that does not
\* deserialize into the expected type gives Deserialization (for a POST, in
\* send_query, where its text is deserialized); anything else is Ok.
C11_ResponseClassification ==
  /\ calc.op \in {"health_check", "get_request", "post_request", "send_query"}
  /\ calc.input.received
  /\ calc.input.body.readable
  => LET status == calc.input.status
         body == calc.input.body
     IN /\ status = 401 => calc.out = AuthenticationFailed("HTTP 401")
        /\ status = 403 => calc.out = AuthenticationFailed("HTTP 403")
        /\ status \notin {401, 403} /\ (status < 200 \/ status > 299)
             => calc.out = ApiError(status, body.text)
        /\ status \in 200..299 /\ ~FitsShape(calc.op, body)
             => calc.out = Deserialization
        /\ status \in 200..299 /\ FitsShape(calc.op, body) /\ calc.op # "send_query"
             => calc.out.kind = "Ok"

C11_Witness ==
  /\ calc.op = "health_check"
  /\ calc.input.status = 403
  /\ calc.input.body = TextBody("<html>")
  /\ calc.out = AuthenticationFailed("HTTP 403")

\* ===========================================================================
\* 64-bit integers
\* ===========================================================================
\* A non-negative integer of any size: its digits in base 2^16, least
\* significant first, without leading zero digits (zero is the empty
\* sequence).  u64 values are the ones of at most four digits.
RECURSIVE BigNorm(_)
BigNorm(a) ==
  IF a # <<>> /\ a[Len(a)] = 0 THEN BigNorm(SubSeq(a, 1, Len(a) - 1)) ELSE a

RECURSIVE BigAddCarry(_, _)
BigAddCarry(a, c) ==
  IF c = 0 THEN a
  ELSE IF a = <<>> THEN <<c % 65536>> \o BigAddCarry(<<>>, c \div 65536)
  ELSE <<(a[1] + c) % 65536>> \o BigAddCarry(Tail(a), (a[1] + c) \div 65536)

RECURSIVE BigMulCarry(_, _, _)
BigMulCarry(a, k, c) ==
  IF a = <<>> THEN BigAddCarry(<<>>, c)
  ELSE <<(a[1] * k + c) % 65536>>
         \o BigMulCarry(Tail(a), k, (a[1] * k + c) \div 65536)

\* a + k and a * k for a small k (k below 2^15)
BigAddSmall(a, k) == BigNorm(BigAddCarry(a, k))
BigMulSmall(a, k) == BigNorm(BigMulCarry(a, k, 0))

\* quotient and remainder of a by a small k
RECURSIVE BigDivRem(_, _)
BigDivRem(a, k) ==
  IF a = <<>> THEN [q |-> <<>>, r |-> 0]
  ELSE LET hi == BigDivRem(Tail(a), k)
           num == hi.r * 65536 + a[1]
       IN [q |-> <<num \div k>> \o hi.q, r |-> num % k]
BigDivSmall(a, k) == BigNorm(BigDivRem(a, k).q)

RECURSIVE BigLessFrom(_, _, _)
BigLessFrom(a, b, i) ==
  IF i = 0 THEN FALSE
  ELSE IF a[i] # b[i] THEN a[i] < b[i]
  ELSE BigLessFrom(a, b, i - 1)
BigLess(a, b) ==
  IF Len(a) # Len(b) THEN Len(a) < Len(b) ELSE BigLessFrom(a, b, Len(a))

RECURSIVE BigAddDigits(_, _, _)
BigAddDigits(a, b, c) ==
  IF a = <<>> THEN BigAddCarry(b, c)
  ELSE IF b = <<>> THEN BigAddCarry(a, c)
  ELSE <<(a[1] + b[1] + c) % 65536>>
         \o BigAddDigits(Tail(a), Tail(b), (a[1] + b[1] + c) \div 65536)
BigAdd(a, b) == BigNorm(BigAddDigits(a, b, 0))

\* a - b for a >= b
RECURSIVE BigSubDigits(_, _, _)
BigSubDigits(a, b, borrow) ==
  IF a = <<>> THEN <<>>
  ELSE LET bi == IF b = <<>> THEN 0 ELSE b[1]
           d == a[1] - bi - borrow
       IN <<d % 65536>>
            \o BigSubDigits(Tail(a), IF b = <<>> THEN <<>> ELSE Tail(b),
                            IF d < 0 THEN 1 ELSE 0)
BigSub(a, b) == BigNorm(BigSubDigits(a, b, 0))

\* The integer written in decimal as groups of three digits: Dec(<<1, 700>>)
\* is 1_700.
RECURSIVE Dec(_)
Dec(groups) ==
  IF groups = <<>> THEN <<>>
  ELSE BigAddSmall(BigMulSmall(Dec(SubSeq(groups, 1, Len(groups) - 1)), 1000),
                   groups[Len(groups)])

\* u64: values below 2^64; arithmetic that leaves the range overflows.
FitsU64(a) == Len(a) =< 4
WrapU64(a) == BigNorm(SubSeq(a, 1, IF Len(a) < 4 THEN Len(a) ELSE 4))
u64_MAX == Dec(<<18, 446, 744, 73, 709, 551, 615>>)

\* ===========================================================================
\* Timestamps (src/src/otlp/signoz/client.rs)
\* ===========================================================================
\* A string is the sequence of its characters.
DigitChars == <<"0", "1", "2", "3", "4", "5", "6", "7", "8", "9">>
IsDigit(c) == \E i \in 1..10 : DigitChars[i] = c
DigitValue(c) == (CHOOSE i \in 1..10 : DigitChars[i] = c) - 1

\* n.to_string()
RECURSIVE to_string(_)
to_string(n) ==
  IF n = <<>> THEN <<"0">>
  ELSE IF BigDivSmall(n, 10) = <<>> THEN <<DigitChars[BigDivRem(n, 10).r + 1]>>
  ELSE to_string(BigDivSmall(n, 10)) \o <<DigitChars[BigDivRem(n, 10).r + 1]>>

\* s.parse::<u64>(): an optional "+", then one or more decimal digits,
\* accumulated from the left with checked arithmetic (a value that leaves 64
\* bits is an error).
RECURSIVE parse_digits(_, _, _)
parse_digits(s, i, acc) ==
  IF i > Len(s) THEN Some(acc)
  ELSE IF ~IsDigit(s[i]) THEN None
  ELSE IF ~FitsU64(BigAddSmall(BigMulSmall(acc, 10), DigitValue(s[i]))) THEN None
  ELSE parse_digits(s, i + 1, BigAddSmall(BigMulSmall(acc, 10), DigitValue(s[i])))
parse_u64(s) ==
  IF s = <<>> THEN None
  ELSE IF s[1] = "+" THEN (IF Len(s) = 1 THEN None ELSE parse_digits(s, 2, <<>>))
  ELSE parse_digits(s, 1, <<>>)

\* serde_json::Value, as far as parse_timestamp tells values apart: as_u64()
\* is Some for a non-negative integer, as_str() for a string.
JsonU64(n) == [type |-> "u64", n |-> n, s |-> <<>>]
JsonString(s) == [type |-> "string", n |-> <<>>, s |-> s]
JsonOther(type) == [type |-> type, n |-> <<>>, s |-> <<>>]

magnitude_to_ms_inclusive(n) ==
  IF ~BigLess(n, Dec(<<1, 0, 0, 0, 0, 0>>))
  THEN BigDivSmall(BigDivSmall(n, 1000), 1000)
  ELSE IF ~BigLess(n, Dec(<<1, 0, 0, 0, 0>>)) THEN n
  ELSE BigMulSmall(n, 1000)

\* The three magnitude classes: nanoseconds, milliseconds, seconds.
magnitude_to_ms(n) ==
  IF BigLess(Dec(<<1, 0, 0, 0, 0, 0>>), n)
  THEN BigDivSmall(BigDivSmall(n, 1000), 1000)
  ELSE IF BigLess(Dec(<<1, 0, 0, 0, 0>>), n) THEN n
  ELSE BigMulSmall(n, 1000)

parse_timestamp(v) ==
  IF v.type = "u64" THEN Some(magnitude_to_ms(v.n))
  ELSE IF v.type = "string"
  THEN IF parse_u64(v.s).some THEN Some(magnitude_to_ms(parse_u64(v.s).v))
       ELSE None
  ELSE None

\* --- the values parse_timestamp is applied to ---
MaxPow10 == 19
RECURSIVE Pow10(_)
Pow10(k) == IF k = 0 THEN <<1>> ELSE BigMulSmall(Pow10(k - 1), 10)
TimestampNumbers ==
  {n \in {Pow10(k) : k \in 0..MaxPow10} : FitsU64(n)}
  \cup {BigAddSmall(Pow10(k), 1) : k \in {12, 15}}
  \cup {BigSub(Pow10(k), <<1>>) : k \in {12, 15}}
  \cup { <<>>, u64_MAX, Dec(<<1, 700, 0, 0>>), Dec(<<1, 700, 0, 0, 0>>),
         Dec(<<1, 700, 0, 0, 0, 0>>), Dec(<<1, 700, 0, 0, 0, 0, 0>>) }
TimestampStrings ==
  {to_string(n) : n \in TimestampNumbers}
  \cup { <<>>, <<"+">>, <<"+", "5">>, <<"-", "5">>, <<" ", "5">>, <<"0", "0", "7">>,
         <<"1", "e", "3">>, <<"1", ".", "5">>, <<"a", "b", "c">>,
         to_string(BigAddSmall(u64_MAX, 1)) }
TimestampValues ==
  {JsonU64(n) : n \in TimestampNumbers}
  \cup {JsonString(s) : s \in TimestampStrings}
  \cup {JsonOther(t) : t \in {"null", "bool", "negative", "float", "array", "object"}}

InitTimestamp ==
  /\ BridgeIdle
  /\ \E v \in TimestampValues : calc = [op |-> "value", input |-> v, out |-> Unit]

CallParseTimestamp ==
  Pending("value") /\ Evaluate("parse_timestamp", calc.input, parse_timestamp(calc.input))

NextTimestamp == CallParseTimestamp
SpecTimestamp == InitTimestamp /\ [][NextTimestamp]_vars

\* The integer a timestamp value holds: the number itself, or the number a
\* string of decimal digits denotes.
HoldsInteger(v) ==
  \/ v.type = "u64"
  \/ v.type = "string" /\ \E n \in TimestampNumbers : to_string(n) = v.s
HeldInteger(v) ==
  IF v.type = "u64" THEN v.n
  ELSE CHOOSE n \in TimestampNumbers : to_string(n) = v.s

\* C14: for a value holding the unsigned integer n, as a number or as a
\* decimal string, parse_timestamp gives n div 10^6 when n > 10^15, n when
\* 10^12 < n <= 10^15, and n * 1000 when n <= 10^12; the three examples of
\* the specification come out as stated.
C14_TimestampMagnitude ==
  calc.op = "parse_timestamp" /\ HoldsInteger(calc.input) =>
    LET n == HeldInteger(calc.input)
        ms == calc.out.v
    IN /\ calc.out.some
       /\ BigLess(Pow10(15), n) =>
            /\ ~BigLess(n, BigMulSmall(BigMulSmall(ms, 1000), 1000))
            /\ BigLess(n, BigMulSmall(BigMulSmall(BigAddSmall(ms, 1), 1000), 1000))
       /\ BigLess(Pow10(12), n) /\ ~BigLess(Pow10(15), n) => ms = n
       /\ ~BigLess(Pow10(12), n) =>
            BigDivRem(ms, 1000).r = 0 /\ BigDivSmall(ms, 1000) = n
       /\ n = Dec(<<1, 700, 0, 0, 0, 0, 0>>) => ms = Dec(<<1, 700, 0, 0, 0>>)
       /\ n = Dec(<<1, 700, 0, 0, 0>>) => ms = Dec(<<1, 700, 0, 0, 0>>)
       /\ n = Dec(<<1, 700, 0, 0>>) => ms = Dec(<<1, 700, 0, 0, 0>>)

C14_Witness ==
  /\ calc.op = "parse_timestamp"
  /\ calc.input = JsonString(<<"1", "0", "0", "0", "0", "0", "0", "0", "0", "0",
                               "0", "0", "0", "0", "0", "0">>)
  /\ calc.out = Some(Dec(<<1, 0, 0, 0, 0, 0>>))

\* ---------------------------------------------------------------------------
\* days_from_civil
\* ---------------------------------------------------------------------------
\* i64 division truncates toward zero.
i64_div(a, b) == IF a >= 0 THEN a \div b ELSE -((-a) \div b)

civil_month_index(m) == IF m > 2 THEN m - 3 ELSE m + 9

days_from_civil_january_first(y, m, d) ==
  LET era == i64_div(IF y >= 0 THEN y ELSE y - 399, 400)
      yoe == y - era * 400
      doy == (153 * (m - 1) + 2) \div 5 + d - 1
      doe == yoe * 365 + yoe \div 4 - yoe \div 100 + doy
  IN era * 146097 + doe - 719468

\* The day count of a civil date: the year starts in March, eras are 400
\* years of 146097 days.  The unsigned intermediate values are the integers
\* themselves as long as none is negative (see civil_underflow).
days_from_civil(y, m, d) ==
  LET yy == IF m =< 2 THEN y - 1 ELSE y
      era == i64_div(IF yy >= 0 THEN yy ELSE yy - 399, 400)
      yoe == yy - era * 400
      doy == (153 * civil_month_index(m) + 2) \div 5 + d - 1
      doe == yoe * 365 + yoe \div 4 - yoe \div 100 + doy
  IN era * 146097 + doe - 719468

\* `... + d as u64 - 1` leaves the range of u64 (for months 0..12 and days
\* from 0 on: exactly for day 0 of March): a panic where overflow is
\* checked; otherwise the arithmetic wraps and the value is the integer one.
civil_underflow(y, m, d) == (153 * civil_month_index(m) + 2) \div 5 + d - 1 < 0

\* --- the calendar ---
IsLeap(y) == y % 4 = 0 /\ (y % 100 # 0 \/ y % 400 = 0)
DaysInMonth(y, m) ==
  IF m = 2 THEN (IF IsLeap(y) THEN 29 ELSE 28)
  ELSE IF m \in {4, 6, 9, 11} THEN 30 ELSE 31
CivilDate(y, m, d) == [y |-> y, m |-> m, d |-> d]
NextDay(date) ==
  IF date.d < DaysInMonth(date.y, date.m) THEN CivilDate(date.y, date.m, date.d + 1)
  ELSE IF date.m < 12 THEN CivilDate(date.y, date.m + 1, 1)
  ELSE CivilDate(date.y + 1, 1, 1)

\* The reference day count since 1970-01-01: whole years, then whole months,
\* then days.
RefYearStart(y) ==
  IF y >= 1970 THEN 365 * (y - 1970) + Cardinality({k \in 1970..(y - 1) : IsLeap(k)})
  ELSE -(365 * (1970 - y) + Cardinality({k \in y..1969 : IsLeap(k)}))
RECURSIVE RefMonthStart(_, _)
RefMonthStart(y, m) ==
  IF m = 1 THEN 0 ELSE RefMonthStart(y, m - 1) + DaysInMonth(y, m - 1)
RefDays(date) == RefYearStart(date.y) + RefMonthStart(date.y, date.m) + date.d - 1

\* --- the dates days_from_civil is applied to ---
MinYear == 1896
MaxYear == 2104
CivilYears == {0, 1} \cup (MinYear..MaxYear)
CivilDates ==
  {CivilDate(y, m, d) : y \in CivilYears, m \in 1..12, d \in 1..31}

InitCivil ==
  /\ BridgeIdle
  /\ \E date \in CivilDates :
        /\ date.d =< DaysInMonth(date.y, date.m)
        /\ calc = [op |-> "date", input |-> date, out |-> Unit]

CallDaysFromCivil ==
  /\ Pending("date")
  /\ Evaluate("days_from_civil", calc.input,
              days_from_civil(calc.input.y, calc.input.m, calc.input.d))

NextCivil == CallDaysFromCivil
SpecCivil == InitCivil /\ [][NextCivil]_vars

\* C17: for every valid date of the year range, days_from_civil is the
\* reference day count since 1970-01-01: it is 0 for 1970-01-01, and the
\* value for the next calendar day is exactly one more.
C17_DaysFromCivil ==
  calc.op = "days_from_civil" =>
    LET next == NextDay(calc.input) IN
    /\ calc.out = RefDays(calc.input)
    /\ calc.input = CivilDate(1970, 1, 1) => calc.out = 0
    /\ days_from_civil(next.y, next.m, next.d) = calc.out + 1

C17_Witness ==
  /\ calc.op = "days_from_civil"
  /\ calc.input = CivilDate(2000, 2, 29)
  /\ calc.out = 11016
  /\ NextDay(calc.input) = CivilDate(2000, 3, 1)

\* ---------------------------------------------------------------------------
\* Strings (sequences of characters; "é" stands for a character of two bytes)
\* ---------------------------------------------------------------------------
ByteLen(c) == IF c = "é" THEN 2 ELSE 1
RECURSIVE str_len(_)
str_len(s) == IF s = <<>> THEN 0 ELSE ByteLen(s[1]) + str_len(Tail(s))

RECURSIVE trim_start(_)
trim_start(s) == IF s # <<>> /\ s[1] = " " THEN trim_start(Tail(s)) ELSE s
RECURSIVE trim_end(_)
trim_end(s) ==
  IF s # <<>> /\ s[Len(s)] = " " THEN trim_end(SubSeq(s, 1, Len(s) - 1)) ELSE s
trim(s) == trim_end(trim_start(s))

\* position of the first c in s, 0 when there is none
find(s, c) ==
  IF \E i \in 1..Len(s) : s[i] = c
  THEN CHOOSE i \in 1..Len(s) : s[i] = c /\ \A j \in 1..(i - 1) : s[j] # c
  ELSE 0
split_once(s, c) ==
  IF find(s, c) = 0 THEN None
  ELSE Some([left |-> SubSeq(s, 1, find(s, c) - 1),
             right |-> SubSeq(s, find(s, c) + 1, Len(s))])

\* s.splitn(n, c): at most n pieces, the last one holding the rest
RECURSIVE splitn(_, _, _)
splitn(s, n, c) ==
  IF n = 1 \/ find(s, c) = 0 THEN <<s>>
  ELSE <<SubSeq(s, 1, find(s, c) - 1)>>
         \o splitn(SubSeq(s, find(s, c) + 1, Len(s)), n - 1, c)

ends_with(s, suffix) ==
  Len(s) >= Len(suffix) /\ SubSeq(s, Len(s) - Len(suffix) + 1, Len(s)) = suffix

\* &s[..n]: the prefix of n bytes; n must fall between two characters.
is_char_boundary(s, n) == \E k \in 0..Len(s) : str_len(SubSeq(s, 1, k)) = n
slice_to(s, n) == SubSeq(s, 1, CHOOSE k \in 0..Len(s) : str_len(SubSeq(s, 1, k)) = n)

\* format!("{:0<3}", s): zeros appended up to three characters
pad_zeros(s) ==
  IF Len(s) >= 3 THEN s ELSE s \o SubSeq(<<"0", "0", "0">>, 1, 3 - Len(s))

\* s.parse::<i64>().ok(): an optional sign, then decimal digits, within 64
\* bits.  The value is returned as an integer of the checker.
i64_MIN_magnitude == <<0, 0, 0, 32768>>
BigToInt(a) ==
  IF a = <<>> THEN 0 ELSE IF Len(a) = 1 THEN a[1] ELSE a[1] + 65536 * a[2]
IntToBig(n) == BigAddCarry(<<>>, n)
parse_i64(s) ==
  IF s = <<>> THEN None
  ELSE IF s[1] \in {"+", "-"}
  THEN IF Len(s) = 1 \/ ~parse_digits(s, 2, <<>>).some THEN None
       ELSE IF s[1] = "+"
       THEN IF BigLess(parse_digits(s, 2, <<>>).v, i64_MIN_magnitude)
            THEN Some(BigToInt(parse_digits(s, 2, <<>>).v)) ELSE None
       ELSE IF BigLess(i64_MIN_magnitude, parse_digits(s, 2, <<>>).v) THEN None
            ELSE Some(-BigToInt(parse_digits(s, 2, <<>>).v))
  ELSE IF ~parse_digits(s, 1, <<>>).some THEN None
  ELSE IF BigLess(parse_digits(s, 1, <<>>).v, i64_MIN_magnitude)
       THEN Some(BigToInt(parse_digits(s, 1, <<>>).v)) ELSE None

\* ---------------------------------------------------------------------------
\* parse_iso8601_to_ms
\* ---------------------------------------------------------------------------
\* A call that ends in a panic returns nothing.
Panic == [some |-> FALSE, panic |-> TRUE]

\* time_part without its "Z", else without its "+00:00", else as it is
strip_utc(time_part) ==
  IF ends_with(time_part, <<"Z">>) THEN SubSeq(time_part, 1, Len(time_part) - 1)
  ELSE IF ends_with(time_part, <<"+", "0", "0", ":", "0", "0">>)
  THEN slice_to(time_part, str_len(time_part) - 6)
  ELSE time_part

\* iter.next()?.parse().ok()? for the i-th piece
parse_piece(pieces, i) == IF Len(pieces) < i THEN None ELSE parse_i64(pieces[i])

\* The milliseconds of the fraction: Panic when the first three bytes do not
\* end at a character, 0 when the three characters are not a number.
frac_ms_no_padding(frac_str) ==
  IF str_len(frac_str) >= 3
  THEN IF ~is_char_boundary(frac_str, 3) THEN Panic
       ELSE IF parse_u64(slice_to(frac_str, 3)).some
       THEN parse_u64(slice_to(frac_str, 3)) ELSE Some(<<>>)
  ELSE IF parse_u64(frac_str).some THEN parse_u64(frac_str) ELSE Some(<<>>)

frac_ms(frac_str) ==
  IF str_len(frac_str) >= 3
  THEN IF ~is_char_boundary(frac_str, 3) THEN Panic
       ELSE IF parse_u64(slice_to(frac_str, 3)).some
       THEN parse_u64(slice_to(frac_str, 3)) ELSE Some(<<>>)
  ELSE IF parse_u64(pad_zeros(frac_str)).some
       THEN parse_u64(pad_zeros(frac_str)) ELSE Some(<<>>)

\* days * 86400 + secs as a pair of non-negative amounts: what counts
\* forward from the epoch and what counts backward.
SecondsForward(days, secs) ==
  BigAdd(IF days >= 0 THEN BigMulSmall(BigMulSmall(IntToBig(days), 864), 100)
         ELSE <<>>,
         IF secs >= 0 THEN IntToBig(secs) ELSE <<>>)
SecondsBackward(days, secs) ==
  BigAdd(IF days < 0 THEN BigMulSmall(BigMulSmall(IntToBig(-days), 864), 100)
         ELSE <<>>,
         IF secs < 0 THEN IntToBig(-secs) ELSE <<>>)

\* overflow_checks: whether the build panics on integer overflow (as debug
\* builds do) or wraps (as release builds do).
parse_iso8601_to_ms(str, overflow_checks) ==
  LET s == trim(str) IN
  IF ~split_once(s, "T").some THEN None
  ELSE
  LET date_part == split_once(s, "T").v.left
      time_part == strip_utc(split_once(s, "T").v.right)
      date_iter == splitn(date_part, 3, "-")
      year == parse_piece(date_iter, 1)
      month == parse_piece(date_iter, 2)
      day == parse_piece(date_iter, 3)
      time_hms == IF split_once(time_part, ".").some
                  THEN split_once(time_part, ".").v.left ELSE time_part
      frac_str == IF split_once(time_part, ".").some
                  THEN split_once(time_part, ".").v.right ELSE <<"0">>
      time_iter == splitn(time_hms, 3, ":")
      hour == parse_piece(time_iter, 1)
      minute == parse_piece(time_iter, 2)
      second == parse_piece(time_iter, 3)
  IN
  IF ~year.some \/ ~month.some \/ ~day.some THEN None
  ELSE IF ~hour.some \/ ~minute.some \/ ~second.some THEN None
  ELSE IF frac_ms(frac_str) = Panic THEN Panic
  ELSE IF overflow_checks /\ civil_underflow(year.v, month.v, day.v) THEN Panic
  ELSE
  LET days == days_from_civil(year.v, month.v, day.v)
      secs == hour.v * 3600 + minute.v * 60 + second.v
      forward == SecondsForward(days, secs)
      backward == SecondsBackward(days, secs)
  IN IF BigLess(forward, backward) THEN None
     ELSE Some(BigAdd(BigMulSmall(BigSub(forward, backward), 1000),
                      frac_ms(frac_str).v))

\* The timestamp of a row: the numeric "timestamp" field of its data if it
\* parses, else the ISO-8601 timestamp of the row if it parses, else 0.
row_timestamp_ms(data_timestamp, row_timestamp, overflow_checks) ==
  IF data_timestamp.some /\ parse_timestamp(data_timestamp.v).some
  THEN parse_timestamp(data_timestamp.v)
  ELSE IF ~row_timestamp.some THEN Some(<<>>)
  ELSE IF parse_iso8601_to_ms(row_timestamp.v, overflow_checks) = Panic THEN Panic
  ELSE IF parse_iso8601_to_ms(row_timestamp.v, overflow_checks).some
  THEN parse_iso8601_to_ms(row_timestamp.v, overflow_checks)
  ELSE Some(<<>>)

\* --- the strings parse_iso8601_to_ms is applied to ---
Digits2(n) == <<DigitChars[(n \div 10) + 1], DigitChars[(n % 10) + 1]>>
Digits4(n) == Digits2(n \div 100) \o Digits2(n % 100)
TimeOfDay(h, mi, s) == [h |-> h, mi |-> mi, s |-> s]

\* The text made of the pieces of a timestamp.
IsoText(p) ==
  p.year \o <<"-">> \o p.month \o <<"-">> \o p.day \o p.sep
    \o p.hour \o <<":">> \o p.minute \o <<":">> \o p.second
    \o (IF p.frac.some THEN <<".">> \o p.frac.v ELSE <<>>) \o p.suffix
IsoPieces(date, time, frac, suffix) ==
  [year |-> Digits4(date.y), month |-> Digits2(date.m), day |-> Digits2(date.d),
   sep |-> <<"T">>, hour |-> Digits2(time.h), minute |-> Digits2(time.mi),
   second |-> Digits2(time.s), frac |-> frac, suffix |-> suffix]

IsoDates ==
  { CivilDate(1970, 1, 1), CivilDate(2026, 2, 2), CivilDate(1969, 12, 31),
    CivilDate(2000, 2, 29), CivilDate(2038, 1, 19), CivilDate(9999, 12, 31),
    CivilDate(1, 1, 1), CivilDate(1999, 12, 31) }
IsoTimes == {TimeOfDay(0, 0, 0), TimeOfDay(19, 40, 37), TimeOfDay(23, 59, 59)}
IsoFractions ==
  { None, Some(<<"1">>), Some(<<"1", "2">>), Some(<<"1", "2", "6">>),
    Some(<<"1", "2", "6", "9", "8", "1">>), Some(<<"0", "0", "0">>),
    Some(<<"9", "9", "9", "9", "9", "9", "9", "9", "9">>) }
UtcSuffixes == {<<"Z">>, <<"+", "0", "0", ":", "0", "0">>}

IsoInput(class, pieces, date, time) ==
  [text |-> IsoText(pieces), class |-> class, date |-> date, time |-> time,
   frac |-> pieces.frac]
WellFormedInputs ==
  { IsoInput("well-formed", IsoPieces(date, time, frac, suffix), date, time) :
      date \in IsoDates, time \in IsoTimes, frac \in IsoFractions,
      suffix \in UtcSuffixes }

\* Malformed variants of "2026-02-02T19:40:37.126981Z".
BaseDate == CivilDate(2026, 2, 2)
BaseTime == TimeOfDay(19, 40, 37)
BasePieces ==
  IsoPieces(BaseDate, BaseTime, Some(<<"1", "2", "6", "9", "8", "1">>), <<"Z">>)
Malformed(class, pieces) == IsoInput(class, pieces, BaseDate, BaseTime)
Junk == {<<>>, <<"x", "x">>, <<"0", "2", "x">>, <<" ", "2">>, <<"1", ".", "5">>}
LacksT ==
  {Malformed("lacks T", [BasePieces EXCEPT !.sep = sep]) :
     sep \in {<<>>, <<" ">>, <<"t">>, <<"_">>}}
UnparsableComponent ==
  {Malformed("component", [BasePieces EXCEPT !.year = j]) :
     j \in (Junk \ {<<"1", ".", "5">>}) \cup {<<"-", "1">>, to_string(Pow10(19))}}
  \cup {Malformed("component", [BasePieces EXCEPT !.month = j]) : j \in Junk}
  \cup {Malformed("component", [BasePieces EXCEPT !.day = j]) : j \in Junk}
  \cup {Malformed("component", [BasePieces EXCEPT !.hour = j]) : j \in Junk}
  \cup {Malformed("component", [BasePieces EXCEPT !.minute = j]) : j \in Junk}
  \cup {Malformed("component", [BasePieces EXCEPT !.second = j]) :
          j \in Junk \ {<<"1", ".", "5">>}}
UnparsableFraction ==
  {Malformed("fraction", [BasePieces EXCEPT !.frac = Some(j)]) :
     j \in { <<"a", "b", "c">>, <<"1", "x">>, <<"x">>, <<"é">>, <<"1", "2", "x", "4">>,
             <<"1", "2", "é", "5">>, <<"1", "é", "5">> }}
OtherInputs ==
  { Malformed("other", [BasePieces EXCEPT !.month = <<"0", "3">>, !.day = <<"0", "0">>]),
    Malformed("other", [BasePieces EXCEPT !.suffix = <<"+", "0", "5", ":", "3", "0">>]),
    Malformed("other", [BasePieces EXCEPT !.suffix = <<>>]),
    Malformed("other", [BasePieces EXCEPT !.year = <<" ", "2", "0", "2", "6">>,
                                          !.suffix = <<"Z", " ">>]) }
IsoInputs ==
  WellFormedInputs \cup LacksT \cup UnparsableComponent \cup UnparsableFraction
    \cup OtherInputs

\* The "timestamp" field of the row's data, when the row has one: text that
\* is not a number, a number, a number written as text, a value of another
\* type.
DataTimestamps ==
  {None, Some(JsonString(<<"a", "b", "c">>)), Some(JsonU64(Dec(<<1, 700, 0, 0>>))),
   Some(JsonString(<<"1", "7", "0", "0">>)), Some(JsonOther("null"))}

InitIso ==
  /\ BridgeIdle
  /\ \E i \in IsoInputs, data \in DataTimestamps, overflow_checks \in BOOLEAN :
     \E timestamp \in {None, Some(i.text)} :
        calc = [op |-> "row",
                input |-> [row |-> i, timestamp |-> timestamp, data |-> data,
                           overflow_checks |-> overflow_checks],
                out |-> Unit]

CallParseIso ==
  /\ Pending("row")
  /\ Evaluate("parse_iso8601_to_ms", calc.input,
              parse_iso8601_to_ms(calc.input.row.text, calc.input.overflow_checks))
CallRowTimestamp ==
  /\ Pending("row")
  /\ Evaluate("row_timestamp_ms", calc.input,
              row_timestamp_ms(calc.input.data, calc.input.timestamp,
                               calc.input.overflow_checks))

NextIso == CallParseIso \/ CallRowTimestamp
SpecIso == InitIso /\ [][NextIso]_vars

\* The value the specification gives a well-formed timestamp: whole seconds
\* since the epoch, times 1000, plus the first three digits of the fraction
\* (zeros where it has fewer).
FractionMillis(frac) ==
  IF ~frac.some THEN 0
  ELSE LET digit(i) == IF i =< Len(frac.v) THEN DigitValue(frac.v[i]) ELSE 0
       IN 100 * digit(1) + 10 * digit(2) + digit(3)
SecondsOfDay(time) == time.h * 3600 + time.mi * 60 + time.s
BeforeEpoch(row) == RefDays(row.date) < 0
ExpectedMs(row) ==
  BigAddSmall(
    BigMulSmall(BigAdd(BigMulSmall(BigMulSmall(IntToBig(RefDays(row.date)), 864), 100),
                       IntToBig(SecondsOfDay(row.time))), 1000),
    FractionMillis(row.frac))

\* C15 (as claimed): every well-formed timestamp ending in Z or +00:00 gives
\* (days since 1970-01-01 * 86400 + HH*3600 + MM*60 + SS) * 1000 plus the
\* fraction cut or padded to three digits.
C15_IsoValue ==
  calc.op = "parse_iso8601_to_ms" /\ calc.input.row.class = "well-formed" =>
    /\ ~BeforeEpoch(calc.input.row)
    /\ calc.out = Some(ExpectedMs(calc.input.row))

\* C15 (amended): the same for a timestamp at or after 1970-01-01T00:00:00;
\* an earlier one gives None.  The three examples come out as stated.
C15_IsoValueFromEpoch ==
  calc.op = "parse_iso8601_to_ms" /\ calc.input.row.class = "well-formed" =>
    /\ BeforeEpoch(calc.input.row) => calc.out = None
    /\ ~BeforeEpoch(calc.input.row) => calc.out = Some(ExpectedMs(calc.input.row))
    /\ calc.input.row.text = 
           <<"1", "9", "7", "0", "-", "0", "1", "-", "0", "1", "T", "0", "0", ":", "0", "0", ":", "0", "0", "Z">> => calc.out = Some(<<>>)
    /\ calc.input.row.text = 
           <<"2", "0", "2", "6", "-", "0", "2", "-", "0", "2", "T", "1", "9", ":", "4", "0", ":", "3", "7", ".", "1", "2", "6", "9", "8", "1", "Z">>
         => calc.out = Some(Dec(<<1, 770, 61, 237, 126>>))
    /\ calc.input.row.text = 
           <<"2", "0", "2", "6", "-", "0", "2", "-", "0", "2", "T", "1", "9", ":", "4", "0", ":", "3", "7", "Z">>
         => calc.out = Some(Dec(<<1, 770, 61, 237, 0>>))

C15_Witness ==
  /\ calc.op = "parse_iso8601_to_ms"
  /\ calc.input.row.text = 
           <<"2", "0", "2", "6", "-", "0", "2", "-", "0", "2", "T", "1", "9", ":", "4", "0", ":", "3", "7", ".", "1", "2", "6", "9", "8", "1", "Z">>
  /\ calc.out = Some(Dec(<<1, 770, 61, 237, 126>>))

\* C16 (as claimed): a timestamp without the T separator or with an
\* unparsable year, month, day, hour, minute, second or fraction gives None,
\* without a panic, and the row then gets timestamp 0.
C16_MalformedGivesNone ==
  calc.input.row.class \in {"lacks T", "component", "fraction"} =>
    /\ calc.op = "parse_iso8601_to_ms" => calc.out = None
    /\ calc.op = "row_timestamp_ms" /\ ~calc.input.data.some => calc.out = Some(<<>>)

\* ---------------------------------------------------------------------------
\* Query results (client.rs 132-321)
\* ---------------------------------------------------------------------------
SigNozResponseData(result, new_result) == [result |-> result, new_result |-> new_result]
SigNozResultEntry(list, series) == [list |-> list, series |-> series]
SigNozListRow(timestamp, data) == [timestamp |-> timestamp, data |-> data]
SigNozTimeSeries(labels, values) == [labels |-> labels, values |-> values]

extract_result_entries_flat_first(resp) ==
  IF resp.data.some
  THEN IF resp.data.v.result # <<>> \/ ~resp.data.v.new_result.some
       THEN resp.data.v.result
       ELSE resp.data.v.new_result.v
  ELSE <<>>

\* The entries of newResult when the data has one, else the flat result list.
extract_result_entries(resp) ==
  IF resp.data.some
  THEN IF resp.data.v.new_result.some THEN resp.data.v.new_result.v
       ELSE resp.data.v.result
  ELSE <<>>

\* map.get(key).and_then(|v| v.as_str()).unwrap_or("")
json_str(map, key) ==
  IF key \in DOMAIN map /\ map[key].type = "string" THEN map[key].s ELSE <<>>
extract_string_map_remaining(data) ==
  [k \in {k \in DOMAIN data : data[k].type = "string"}
           \ {"severity_text", "body", "service_name"} |-> data[k].s]

\* the entries of the map whose value is a string
extract_string_map(data) ==
  [k \in {k \in DOMAIN data : data[k].type = "string"} |-> data[k].s]
\* labels.get(key).cloned().unwrap_or_default()
label(labels, key) == IF key \in DOMAIN labels THEN labels[key] ELSE ""

row_data_timestamp(row) ==
  IF "timestamp" \in DOMAIN row.data THEN Some(row.data["timestamp"]) ELSE None

\* The Span of a row (its fields that hold text or a time; the other fields
\* are read from the data in the same way).
Span(row, overflow_checks) ==
  [service_name |-> json_str(row.data, "serviceName"),
   operation_name |-> json_str(row.data, "name"),
   start_time_ms |-> row_timestamp_ms(row_data_timestamp(row), row.timestamp,
                                      overflow_checks),
   attributes |-> extract_string_map(row.data)]
LogEntry(row, overflow_checks) ==
  [timestamp_ms |-> row_timestamp_ms(row_data_timestamp(row), row.timestamp,
                                     overflow_checks),
   severity |-> json_str(row.data, "severity_text"),
   body |-> json_str(row.data, "body"),
   service_name |-> json_str(row.data, "service_name"),
   attributes |-> extract_string_map(row.data)]
MetricSeries(ts) ==
  [metric_name |-> label(ts.labels, "__name__"),
   service_name |-> label(ts.labels, "service_name"),
   labels |-> ts.labels,
   points |-> ts.values]

\* One item per row (or series) of every entry that has a list (or series),
\* in order.
RECURSIVE parse_list_rows(_, _, _)
parse_list_rows(entries, item(_, _), overflow_checks) ==
  IF entries = <<>> THEN <<>>
  ELSE (IF entries[1].list.some
        THEN [i \in 1..Len(entries[1].list.v) |->
                item(entries[1].list.v[i], overflow_checks)]
        ELSE <<>>)
       \o parse_list_rows(Tail(entries), item, overflow_checks)
RECURSIVE parse_series(_)
parse_series(entries) ==
  IF entries = <<>> THEN <<>>
  ELSE (IF entries[1].series.some
        THEN [i \in 1..Len(entries[1].series.v) |-> MetricSeries(entries[1].series.v[i])]
        ELSE <<>>)
       \o parse_series(Tail(entries))

parse_trace_results(resp, overflow_checks) ==
  parse_list_rows(extract_result_entries(resp), Span, overflow_checks)
parse_log_results(resp, overflow_checks) ==
  parse_list_rows(extract_result_entries(resp), LogEntry, overflow_checks)
parse_metric_results(resp) == parse_series(extract_result_entries(resp))

\* A row whose timestamp cannot be computed ends the call in a panic.
Panics(items, field) ==
  \E i \in 1..Len(items) : items[i][field] = Panic
QueryResult_untotalled(items) == [items |-> items, total |-> None]

\* QueryResult { total: Some(items.len() as u64), items }
QueryResult(items) == [items |-> items, total |-> Some(Len(items))]

query_traces(resp, overflow_checks) ==
  IF send_query(resp).kind # "Ok" THEN send_query(resp)
  ELSE IF Panics(parse_trace_results(send_query(resp).value, overflow_checks),
                 "start_time_ms") THEN Panic
  ELSE Ok(QueryResult(parse_trace_results(send_query(resp).value, overflow_checks)))
query_logs(resp, overflow_checks) ==
  IF send_query(resp).kind # "Ok" THEN send_query(resp)
  ELSE IF Panics(parse_log_results(send_query(resp).value, overflow_checks),
                 "timestamp_ms") THEN Panic
  ELSE Ok(QueryResult(parse_log_results(send_query(resp).value, overflow_checks)))
query_metrics(resp) ==
  IF send_query(resp).kind # "Ok" THEN send_query(resp)
  ELSE Ok(QueryResult(parse_metric_results(send_query(resp).value)))

\* --- the responses the query operations are applied to ---
RowWeb ==
  SigNozListRow(Some(<<"2", "0", "2", "6", "-", "0", "2", "-", "0", "2", "T", "1", "9",
                       ":", "4", "0", ":", "3", "7", "Z">>),
                [serviceName |-> JsonString(<<"w", "e", "b">>),
                 name |-> JsonString(<<"G", "E", "T">>)])
RowDb ==
  SigNozListRow(None,
                [timestamp |-> JsonU64(Dec(<<1, 700, 0, 0>>)),
                 service_name |-> JsonString(<<"d", "b">>),
                 body |-> JsonString(<<"o", "k">>),
                 severity_text |-> JsonString(<<"I", "N", "F", "O">>),
                 statusCode |-> JsonOther("negative")])
SeriesWeb ==
  SigNozTimeSeries([service_name |-> "web"], <<[timestamp |-> 1, value |-> 42]>>)
EntryLists ==
  { <<>>,
    <<SigNozResultEntry(Some(<<RowWeb, RowDb>>), None)>>,
    <<SigNozResultEntry(Some(<<RowDb>>), Some(<<SeriesWeb>>)),
      SigNozResultEntry(None, Some(<<SeriesWeb, SeriesWeb>>))>> }
EnvelopeData ==
  {None} \cup {Some(SigNozResponseData(result, new_result)) :
                 result \in EntryLists,
                 new_result \in {None} \cup {Some(l) : l \in EntryLists}}
Envelopes ==
  {SigNozResponse(status, data, error) :
     status \in {"success", "error", "", "failed"},
     data \in EnvelopeData,
     error \in {None, Some("something went wrong")}}
QueryExchanges ==
  {Response(s, EnvelopeBody(e)) : s \in {200, 401, 500}, e \in Envelopes}
  \cup {NoResponse, Response(200, TextBody("<html>")), Response(200, ServicesBody),
        Response(200, BrokenBody)}

InitQuery ==
  /\ BridgeIdle
  /\ \E r \in QueryExchanges, overflow_checks \in BOOLEAN :
        calc = [op |-> "query",
                input |-> [exchange |-> r, overflow_checks |-> overflow_checks],
                out |-> Unit]

CallExtractResultEntries ==
  /\ Pending("query")
  /\ send_query(calc.input.exchange).kind = "Ok"
  /\ Evaluate("extract_result_entries", calc.input,
              extract_result_entries(send_query(calc.input.exchange).value))
CallQueryTraces ==
  /\ Pending("query")
  /\ Evaluate("query_traces", calc.input,
              query_traces(calc.input.exchange, calc.input.overflow_checks))
CallQueryLogs ==
  /\ Pending("query")
  /\ Evaluate("query_logs", calc.input,
              query_logs(calc.input.exchange, calc.input.overflow_checks))
CallQueryMetrics ==
  /\ Pending("query")
  /\ Evaluate("query_metrics", calc.input, query_metrics(calc.input.exchange))

NextQuery ==
  CallExtractResultEntries \/ CallQueryTraces \/ CallQueryLogs \/ CallQueryMetrics
SpecQuery == InitQuery /\ [][NextQuery]_vars

\* The envelope of a 2xx response, when its body is one.
HasEnvelope(x) ==
  /\ x.received
  /\ x.status \in 200..299
  /\ x.body.readable
  /\ x.body.parsed.SigNozResponse.some
EnvelopeOf(x) == x.body.parsed.SigNozResponse.v

\* C12: for the three query operations, a 2xx envelope with status "error"
\* gives Err(Backend(m)) with m the envelope's error field, or "unknown
\* error" without one, and no items; an envelope with any other status
\* value gives Ok.
C12_BackendError ==
  /\ calc.op \in {"query_traces", "query_logs", "query_metrics"}
  /\ HasEnvelope(calc.input.exchange)
  => LET e == EnvelopeOf(calc.input.exchange) IN
     /\ e.status = "error" /\ e.error.some => calc.out = Backend(e.error.v)
     /\ e.status = "error" /\ ~e.error.some => calc.out = Backend("unknown error")
     /\ e.status = "error" => calc.out.value = Unit
     /\ e.status # "error" => calc.out.kind = "Ok"

C12_Witness ==
  /\ calc.op = "query_logs"
  /\ HasEnvelope(calc.input.exchange)
  /\ EnvelopeOf(calc.input.exchange).status = "error"
  /\ ~EnvelopeOf(calc.input.exchange).error.some
  /\ EnvelopeOf(calc.input.exchange).data.some
  /\ EnvelopeOf(calc.input.exchange).data.v.result # <<>>
  /\ calc.out = Backend("unknown error")

\* C13: the entries are those of newResult when the data has a newResult
\* (also when the flat list is populated too), the flat result list when it
\* has none, and none when the envelope has no data.
C13_NestedFirst ==
  calc.op = "extract_result_entries" =>
    LET e == EnvelopeOf(calc.input.exchange) IN
    /\ ~e.data.some => calc.out = <<>>
    /\ e.data.some /\ e.data.v.new_result.some => calc.out = e.data.v.new_result.v
    /\ e.data.some /\ ~e.data.v.new_result.some => calc.out = e.data.v.result

C13_Witness ==
  /\ calc.op = "extract_result_entries"
  /\ EnvelopeOf(calc.input.exchange).data.some
  /\ EnvelopeOf(calc.input.exchange).data.v.new_result.some
  /\ Len(EnvelopeOf(calc.input.exchange).data.v.result) = 2
  /\ Len(calc.out) = 1
  /\ calc.out = EnvelopeOf(calc.input.exchange).data.v.new_result.v


\* ---------------------------------------------------------------------
\* Query payloads (src/src/otlp/signoz/query.rs)
\* ---------------------------------------------------------------------

\* types.rs TimeRange: two u64 millisecond values.
TimeRange(start_ms, end_ms) == [start_ms |-> start_ms, end_ms |-> end_ms]

\* now_ms.saturating_sub(3_600_000)
saturating_sub_hour(now_ms) ==
  IF BigLess(now_ms, Dec(<<3, 600, 0>>)) THEN <<>>
  ELSE BigSub(now_ms, Dec(<<3, 600, 0>>))

default_time_range_one_minute(now_ms) ==
  TimeRange(IF BigLess(now_ms, Dec(<<60, 0>>)) THEN <<>>
            ELSE BigSub(now_ms, Dec(<<60, 0>>)), now_ms)

\* default_time_range: the last hour before the clock reading now_ms.
default_time_range(now_ms) == TimeRange(saturating_sub_hour(now_ms), now_ms)

\* x * 1_000_000 on u64: a product of 2^64 or more panics where overflow is
\* checked and wraps modulo 2^64 where it is not.
u64_mul_1_000_000(x, overflow_checks) ==
  LET exact == BigMulSmall(BigMulSmall(x, 1000), 1000) IN
  IF FitsU64(exact) THEN Some(exact)
  ELSE IF overflow_checks THEN Panic
  ELSE Some(WrapU64(exact))

unwrap_or(opt, default) == IF opt.some THEN opt.v ELSE default

\* One element of the payload's filters.items.
FilterItem(key, type, isColumn, op, value) ==
  [key |-> [key |-> key, dataType |-> "string", type |-> type,
            isColumn |-> isColumn],
   op |-> op, value |-> value]

DurationItem(op, value) ==
  [key |-> [key |-> "durationNano", dataType |-> "float64", type |-> "tag",
            isColumn |-> TRUE],
   op |-> op, value |-> value]

\* if let Some(ref x) = field { filters.push(..) }
push_if_some(opt, item(_)) == IF opt.some THEN <<item(opt.v)>> ELSE <<>>

\* for (k, v) in &map { filters.push(..) }: the entries of a HashMap are
\* visited in the order the map yields them.
map_items(map, order) ==
  [i \in 1..Len(order) |->
     FilterItem(order[i], "tag", FALSE, "=", map[order[i]])]

\* The orders in which a HashMap can yield its keys.
IterationOrders(map) ==
  {order \in [1..Cardinality(DOMAIN map) -> DOMAIN map] :
     \A i, j \in DOMAIN order : order[i] = order[j] => i = j}

AnyPanic(values) == \E i \in DOMAIN values : ~values[i].some


\* build_trace_query.  The filters are built first, the time range is
\* converted when the payload is assembled; a panic in either abandons the
\* call.
build_trace_query(query, now_ms, order, overflow_checks) ==
  LET tr == unwrap_or(query.time_range, default_time_range(now_ms))
      limit == unwrap_or(query.limit, 100)
      offset == unwrap_or(query.offset, 0)
      Service(svc) == FilterItem("serviceName", "tag", TRUE, "=", svc)
      Operation(op) == FilterItem("name", "tag", TRUE, "=", op)
      min_dur == IF query.min_duration_ms.some
                 THEN <<u64_mul_1_000_000(query.min_duration_ms.v,
                                          overflow_checks)>>
                 ELSE <<>>
      max_dur == IF query.max_duration_ms.some
                 THEN <<u64_mul_1_000_000(query.max_duration_ms.v,
                                          overflow_checks)>>
                 ELSE <<>>
      start == u64_mul_1_000_000(tr.start_ms, overflow_checks)
      end == u64_mul_1_000_000(tr.end_ms, overflow_checks)
  IN IF AnyPanic(min_dur \o max_dur \o <<start, end>>) THEN Panic
     ELSE Some([start |-> start.v,
                end |-> end.v,
                dataSource |-> "traces",
                panelType |-> "list",
                filters |->
                  push_if_some(query.service_name, Service)
                  \o push_if_some(query.operation_name, Operation)
                  \o [i \in DOMAIN min_dur |-> DurationItem(">=", min_dur[i].v)]
                  \o [i \in DOMAIN max_dur |-> DurationItem("<=", max_dur[i].v)]
                  \o map_items(query.tags, order),
                limit |-> limit,
                offset |-> offset])

\* build_log_query
build_log_query(query, now_ms, order, overflow_checks) ==
  LET tr == unwrap_or(query.time_range, default_time_range(now_ms))
      limit == unwrap_or(query.limit, 100)
      offset == unwrap_or(query.offset, 0)
      Service(svc) == FilterItem("service_name", "resource", TRUE, "=", svc)
      Severity(sev) == FilterItem("severity_text", "tag", TRUE, "=", sev)
      Body(text) == FilterItem("body", "tag", TRUE, "contains", text)
      start == u64_mul_1_000_000(tr.start_ms, overflow_checks)
      end == u64_mul_1_000_000(tr.end_ms, overflow_checks)
  IN IF AnyPanic(<<start, end>>) THEN Panic
     ELSE Some([start |-> start.v,
                end |-> end.v,
                dataSource |-> "logs",
                panelType |-> "list",
                filters |->
                  push_if_some(query.service_name, Service)
                  \o push_if_some(query.severity, Severity)
                  \o push_if_some(query.body_contains, Body)
                  \o map_items(query.attributes, order),
                limit |-> limit,
                offset |-> offset])

\* build_metric_query
build_metric_query(query, now_ms, order, overflow_checks) ==
  LET tr == unwrap_or(query.time_range, default_time_range(now_ms))
      step == unwrap_or(query.step_seconds, 60)
      aggregation == unwrap_or(query.aggregation, "avg")
      metric_name == unwrap_or(query.metric_name, "signoz_calls_total")
      Service(svc) == FilterItem("service_name", "resource", FALSE, "=", svc)
      group_by == [i \in DOMAIN query.group_by |->
                     [key |-> query.group_by[i], dataType |-> "string",
                      type |-> "tag", isColumn |-> FALSE]]
      start == u64_mul_1_000_000(tr.start_ms, overflow_checks)
      end == u64_mul_1_000_000(tr.end_ms, overflow_checks)
  IN IF AnyPanic(<<start, end>>) THEN Panic
     ELSE Some([start |-> start.v,
                end |-> end.v,
                step |-> step,
                dataSource |-> "metrics",
                panelType |-> "time_series",
                aggregateOperator |-> aggregation,
                aggregateAttribute |-> metric_name,
                filters |->
                  push_if_some(query.service_name, Service)
                  \o map_items(query.filters, order),
                groupBy |-> group_by])


\* Inputs: queries whose optional fields are present or absent, time ranges
\* on both sides of the largest millisecond value whose nanoseconds fit a
\* u64 (18_446_744_073_709), and clock readings on both sides of one hour.
MsInRange == Dec(<<18, 446, 744, 73, 709>>)
MsOutOfRange == Dec(<<18, 446, 744, 73, 710>>)

TimeRanges ==
  {TimeRange(Dec(<<1, 700, 0, 0, 0>>), Dec(<<1, 700, 3, 600, 0>>)),
   TimeRange(<<>>, MsInRange),
   TimeRange(MsInRange, MsOutOfRange),
   TimeRange(<<>>, u64_MAX)}

ClockReadings ==
  {<<>>, Dec(<<1, 0>>), Dec(<<3, 600, 0>>), Dec(<<1, 762, 0, 0, 0>>)}

Optional(S) == {None} \cup {Some(x) : x \in S}

TagMaps ==
  {<<>>,
   [k \in {"env"} |-> "prod"],
   [k \in {"env", "region"} |-> IF k = "env" THEN "prod" ELSE "eu"]}

TraceQueries ==
  [service_name : Optional({"web"}),
   operation_name : Optional({"GET /"}),
   min_duration_ms : Optional({Dec(<<5>>), MsOutOfRange}),
   max_duration_ms : Optional({Dec(<<100>>)}),
   time_range : Optional(TimeRanges),
   limit : Optional({25}),
   offset : Optional({50}),
   tags : TagMaps]

LogQueries ==
  [service_name : Optional({"web"}),
   severity : Optional({"ERROR"}),
   body_contains : Optional({"timeout"}),
   time_range : Optional(TimeRanges),
   limit : Optional({25}),
   offset : Optional({50}),
   attributes : TagMaps]

MetricQueries ==
  [metric_name : Optional({"http_requests_total"}),
   service_name : Optional({"web"}),
   time_range : Optional(TimeRanges),
   step_seconds : Optional({30}),
   aggregation : Optional({"sum"}),
   group_by : {<<>>, <<"host">>},
   filters : TagMaps]

BuildInput(kind, queries) ==
  {[op |-> kind,
    input |-> [query |-> q, now_ms |-> now, overflow_checks |-> oc],
    out |-> Unit] : q \in queries, now \in ClockReadings, oc \in BOOLEAN}

InitBuild ==
  /\ BridgeIdle
  /\ calc \in BuildInput("TraceQuery", TraceQueries)
              \cup BuildInput("LogQuery", LogQueries)
              \cup BuildInput("MetricQuery", MetricQueries)

CallDefaultTimeRange ==
  /\ calc.op \in {"TraceQuery", "LogQuery", "MetricQuery"}
  /\ Evaluate("default_time_range", calc.input,
              default_time_range(calc.input.now_ms))
CallBuildTraceQuery ==
  /\ Pending("TraceQuery")
  /\ \E order \in IterationOrders(calc.input.query.tags) :
       Evaluate("build_trace_query", calc.input,
                build_trace_query(calc.input.query, calc.input.now_ms, order,
                                  calc.input.overflow_checks))
CallBuildLogQuery ==
  /\ Pending("LogQuery")
  /\ \E order \in IterationOrders(calc.input.query.attributes) :
       Evaluate("build_log_query", calc.input,
                build_log_query(calc.input.query, calc.input.now_ms, order,
                                calc.input.overflow_checks))
CallBuildMetricQuery ==
  /\ Pending("MetricQuery")
  /\ \E order \in IterationOrders(calc.input.query.filters) :
       Evaluate("build_metric_query", calc.input,
                build_metric_query(calc.input.query, calc.input.now_ms, order,
                                   calc.input.overflow_checks))

NextBuild ==
  \/ CallDefaultTimeRange
  \/ CallBuildTraceQuery
  \/ CallBuildLogQuery
  \/ CallBuildMetricQuery
SpecBuild == InitBuild /\ [][NextBuild]_vars

Built(op) == calc.op = op /\ calc.out.some
Builders == {"build_trace_query", "build_log_query", "build_metric_query"}


\* The mathematical product ms * 1_000_000, of any size.
Nanoseconds(ms) == BigMulSmall(BigMulSmall(ms, 1000), 1000)

ScalarFilters ==
  {"service_name", "operation_name", "min_duration_ms", "max_duration_ms"}
Populated(query) == {f \in ScalarFilters : query[f].some}
TagItems(tags) ==
  {FilterItem(k, "tag", FALSE, "=", tags[k]) : k \in DOMAIN tags}
NotColumn(filters) == {i \in DOMAIN filters : ~filters[i].key.isColumn}

\* Whenever build_trace_query produces a payload, its filter list has one
\* entry per populated scalar filter and one per tag, and the tag entries are
\* exactly the entries with isColumn false.
TraceFiltersOf(query, payload) ==
  /\ Len(payload.filters)
       = Cardinality(Populated(query)) + Cardinality(DOMAIN query.tags)
  /\ Cardinality(NotColumn(payload.filters)) = Cardinality(DOMAIN query.tags)
  /\ {payload.filters[i] : i \in NotColumn(payload.filters)}
       = TagItems(query.tags)
TraceFiltersWhenBuilt ==
  Built("build_trace_query") => TraceFiltersOf(calc.input.query, calc.out.v)

\* C18: for every TraceQuery with n populated scalar filters and m tag
\* entries, build_trace_query builds a payload whose filter list has exactly
\* n+m entries, the entries made from tags being exactly the ones with
\* isColumn false.
C18_TraceFilterCount ==
  calc.op = "build_trace_query" =>
     /\ calc.out.some
     /\ TraceFiltersOf(calc.input.query, calc.out.v)

\* C19: for every TimeRange of u64 values, each of the three builders
\* produces a payload whose start is start_ms * 1_000_000 and whose end is
\* end_ms * 1_000_000 exactly, without wrap-around or failure.
C19_ExactNanoseconds ==
  (calc.op \in Builders /\ calc.input.query.time_range.some) =>
     /\ calc.out.some
     /\ calc.out.v.start = Nanoseconds(calc.input.query.time_range.v.start_ms)
     /\ calc.out.v.end = Nanoseconds(calc.input.query.time_range.v.end_ms)


PassedOrDefault(field, default) ==
  IF calc.input.query[field].some THEN calc.input.query[field].v ELSE default

\* start = now - 3_600_000, or 0 when that would be negative
HourBefore(start, now) ==
  \/ BigAdd(start, Dec(<<3, 600, 0>>)) = now
  \/ start = <<>> /\ BigLess(now, Dec(<<3, 600, 0>>))

\* C20: an absent limit is 100 and an absent offset 0 in trace and log
\* payloads; an absent step is 60, an absent aggregation "avg" and an absent
\* metric name "signoz_calls_total" in metric payloads; a field that is
\* present is passed through unchanged; an absent time range is replaced by
\* the hour that ends at the clock reading, its start saturating at 0.
C20_QueryDefaults ==
  /\ (Built("build_trace_query") \/ Built("build_log_query")) =>
        /\ calc.out.v.limit = PassedOrDefault("limit", 100)
        /\ calc.out.v.offset = PassedOrDefault("offset", 0)
  /\ Built("build_metric_query") =>
        /\ calc.out.v.step = PassedOrDefault("step_seconds", 60)
        /\ calc.out.v.aggregateOperator = PassedOrDefault("aggregation", "avg")
        /\ calc.out.v.aggregateAttribute
             = PassedOrDefault("metric_name", "signoz_calls_total")
  /\ calc.op = "default_time_range" =>
        /\ calc.out.end_ms = calc.input.now_ms
        /\ HourBefore(calc.out.start_ms, calc.input.now_ms)
  /\ (calc.op \in Builders /\ calc.out.some
        /\ ~calc.input.query.time_range.some) =>
        /\ calc.out.v.end = Nanoseconds(calc.input.now_ms)
        /\ \E start \in {<<>>, BigSub(calc.input.now_ms, Dec(<<3, 600, 0>>))} :
              /\ HourBefore(start, calc.input.now_ms)
              /\ calc.out.v.start = Nanoseconds(start)

\* A metric payload built from a query that leaves every optional field out,
\* at a clock reading later than one hour after the epoch.
C20_Witness ==
  /\ Built("build_metric_query")
  /\ \A f \in {"metric_name", "time_range", "step_seconds", "aggregation"} :
        ~calc.input.query[f].some
  /\ calc.input.now_ms = Dec(<<1, 762, 0, 0, 0>>)
  /\ calc.out.v.step = 60
  /\ calc.out.v.start = Dec(<<1, 761, 996, 400, 0, 0, 0>>)


\* ---------------------------------------------------------------------
\* Backend construction (client.rs SigNozBackend::new, mod.rs create_backend)
\* Configuration strings are sequences of characters here, so that the
\* header encoding rules can look at each character.
\* ---------------------------------------------------------------------
ConnectionFailed(msg) ==
  [kind |-> "ConnectionFailed", status |-> 0, message |-> msg, value |-> Unit]

\* http::HeaderName::try_from(&str): a non-empty run of token characters.
\* (The backquote is a token character too; no input here holds one.)
TokenChars ==
  {"a", "b", "c", "d", "e", "f", "g", "h", "i", "j", "k", "l", "m", "n", "o",
   "p", "q", "r", "s", "t", "u", "v", "w", "x", "y", "z",
   "A", "B", "C", "D", "E", "F", "G", "H", "I", "J", "K", "L", "M", "N", "O",
   "P", "Q", "R", "S", "T", "U", "V", "W", "X", "Y", "Z",
   "0", "1", "2", "3", "4", "5", "6", "7", "8", "9",
   "!", "#", "$", "%", "&", "'", "*", "+", "-", ".", "^", "_", "|", "~"}
HeaderName_try_from(s) ==
  s # <<>> /\ \A i \in DOMAIN s : s[i] \in TokenChars

\* http::HeaderValue::from_str: no control character other than the tab.
ControlChars == {"\n", "\r", "\f"}
HeaderValue_from_str(s) == \A i \in DOMAIN s : s[i] \notin ControlChars

Bearer == <<"B", "e", "a", "r", "e", "r", " ">>
SigNozAt == <<"S", "i", "g", "N", "o", "z", " ", "@", " ">>

\* The url() rule applied to the display name.
display_name_trimmed(backend) ==
  SigNozAt \o (IF backend.config.base_url # <<>>
                  /\ backend.config.base_url[Len(backend.config.base_url)] = "/"
               THEN SubSeq(backend.config.base_url, 1,
                           Len(backend.config.base_url) - 1)
               ELSE backend.config.base_url)

\* display_name
display_name(backend) == SigNozAt \o backend.config.base_url

\* SigNozBackend::new.  The checks run in the order of the code; building
\* the HTTP client from the accepted headers and the timeout is taken to
\* succeed.
SigNozBackend_new_result(cfg) ==
  IF cfg.base_url = <<>>
  THEN ConnectionFailed("base_url must not be empty")
  ELSE CASE cfg.auth.type = "ApiKey" ->
              IF ~HeaderName_try_from(cfg.auth.header_name)
              THEN ConnectionFailed("invalid auth header name")
              ELSE IF ~HeaderValue_from_str(cfg.auth.key)
              THEN ConnectionFailed("invalid auth header value")
              ELSE Ok([config |-> cfg])
         [] cfg.auth.type = "BearerToken" ->
              IF ~HeaderValue_from_str(Bearer \o cfg.auth.token)
              THEN ConnectionFailed("invalid bearer token")
              ELSE Ok([config |-> cfg])
         [] OTHER -> Ok([config |-> cfg])

\* create_backend: the only backend kind wraps SigNozBackend::new and
\* passes its error on.
create_backend_result(cfg) ==
  IF SigNozBackend_new_result(cfg).kind = "Ok"
  THEN Ok([SigNoz |-> SigNozBackend_new_result(cfg).value])
  ELSE SigNozBackend_new_result(cfg)

\* TelemetryClient::display_name
client_display_name(client) == display_name(client.SigNoz)

BaseUrls ==
  {<<>>, <<" ">>, <<"h", "t", "t", "p", ":", "/", "/", "h", ":", "1">>,
   <<"h", "t", "t", "p", ":", "/", "/", "h", "/">>}
HeaderNames ==
  {<<"S", "I", "G", "N", "O", "Z", "-", "A", "P", "I", "-", "K", "E", "Y">>,
   <<"x", "-", "k">>, <<>>, <<"x", " ", "k">>, <<"x", "\n">>, <<"x", ":">>}
HeaderSecrets ==
  {<<"k", "1">>, <<>>, <<"k", " ", "1">>, <<"k", "\t", "1">>, <<"k", "\n", "1">>,
   <<"\r">>}
AuthMethods ==
  {AuthNone}
    \cup {ApiKey(n, k) : n \in HeaderNames, k \in HeaderSecrets}
    \cup {BearerToken(t) : t \in HeaderSecrets}
SigNozConfigs ==
  [base_url : BaseUrls, auth : AuthMethods, timeout_secs : {0, 30}]

InitNew ==
  /\ BridgeIdle
  /\ \E c \in SigNozConfigs : calc = [op |-> "config", input |-> c, out |-> Unit]

CallNew ==
  /\ Pending("config")
  /\ Evaluate("SigNozBackend::new", calc.input,
              SigNozBackend_new_result(calc.input))
CallCreateBackend ==
  /\ Pending("config")
  /\ Evaluate("create_backend", calc.input, create_backend_result(calc.input))
CallDisplayName ==
  /\ Pending("SigNozBackend::new")
  /\ calc.out.kind = "Ok"
  /\ Evaluate("display_name", calc.input, display_name(calc.out.value))
CallClientDisplayName ==
  /\ Pending("create_backend")
  /\ calc.out.kind = "Ok"
  /\ Evaluate("display_name", calc.input, client_display_name(calc.out.value))

NextNew ==
  CallNew \/ CallCreateBackend \/ CallDisplayName \/ CallClientDisplayName
SpecNew == InitNew /\ [][NextNew]_vars

\* The auth method of a config holds a field that is not an HTTP header.
AuthNotEncodable(auth) ==
  \/ auth.type = "ApiKey" /\ ~HeaderName_try_from(auth.header_name)
  \/ auth.type = "ApiKey" /\ ~HeaderValue_from_str(auth.key)
  \/ auth.type = "BearerToken" /\ ~HeaderValue_from_str(auth.token)

C22_TotalCountsItems ==
  (calc.op \in {"query_traces", "query_logs", "query_metrics"}
     /\ "kind" \in DOMAIN calc.out) =>
     /\ calc.out.kind = "Ok" =>
          calc.out.value.total = Some(Len(calc.out.value.items))
     /\ ( /\ HasEnvelope(calc.input.exchange)
          /\ EnvelopeOf(calc.input.exchange).status = "success"
          /\ EnvelopeOf(calc.input.exchange).data.some
          /\ EnvelopeOf(calc.input.exchange).data.v.result = <<>>
          /\ EnvelopeOf(calc.input.exchange).data.v.new_result \in {None, Some(<<>>)} )
        => calc.out = Ok([items |-> <<>>, total |-> Some(0)])

\* A trace query answered with two rows: two spans, total = Some(2).
C22_Witness ==
  /\ calc.op = "query_traces"
  /\ calc.out.kind = "Ok"
  /\ Len(calc.out.value.items) = 2
  /\ calc.out.value.total = Some(2)


\* ---------------------------------------------------------------------
\* Configuration from the environment (bridge.rs signoz_config_from_env,
\* login_credentials_from_env), over every combination of the four
\* variables being unset, empty, not valid Unicode, or holding a value.
\* ---------------------------------------------------------------------
EnvValues(value) == {Unset, "", NotUnicode, value}
Environments ==
  [SIGNOZ_BASE_URL : EnvValues("http://example.com"),
   SIGNOZ_API_KEY : EnvValues("my-secret"),
   SIGNOZ_EMAIL : EnvValues("user@example.com"),
   SIGNOZ_PASSWORD : EnvValues("pass123")]

InitEnv ==
  /\ BridgeIdle
  /\ \E e \in Environments : calc = [op |-> "env", input |-> e, out |-> Unit]

\* signoz_config_from_env returns Some(BackendConfig::SigNoz(..)).
CallConfigFromEnv ==
  /\ Pending("env")
  /\ Evaluate("signoz_config_from_env", calc.input,
              Some([SigNoz |-> signoz_config_from_env(calc.input)]))
CallLoginCredentialsFromEnv ==
  /\ Pending("env")
  /\ Evaluate("login_credentials_from_env", calc.input,
              login_credentials_from_env(calc.input))

NextEnv == CallConfigFromEnv \/ CallLoginCredentialsFromEnv
SpecEnv == InitEnv /\ [][NextEnv]_vars

\* The statement of C23 with "set and non-empty" read through IsSet.
EnvConfigWhere(IsSet(_)) ==
  LET e == calc.input IN
  /\ calc.op = "signoz_config_from_env" =>
       /\ calc.out.some
       /\ calc.out.v.SigNoz.base_url
            = (IF IsSet(e.SIGNOZ_BASE_URL) THEN e.SIGNOZ_BASE_URL
               ELSE "http://localhost:8080")
       /\ calc.out.v.SigNoz.auth
            = (IF IsSet(e.SIGNOZ_API_KEY)
               THEN [type |-> "ApiKey", header_name |-> "SIGNOZ-API-KEY",
                     key |-> e.SIGNOZ_API_KEY]
               ELSE [type |-> "None"])
  /\ calc.op = "login_credentials_from_env" =>
       IF IsSet(e.SIGNOZ_EMAIL) /\ IsSet(e.SIGNOZ_PASSWORD)
       THEN calc.out = <<e.SIGNOZ_EMAIL, e.SIGNOZ_PASSWORD>>
       ELSE calc.out = NoCreds

SetNonEmpty(value) == value \notin {Unset, ""}
SetUnicodeNonEmpty(value) == value \notin {Unset, "", NotUnicode}

\* C23: signoz_config_from_env always returns a config; base_url is
\* SIGNOZ_BASE_URL when set and non-empty, otherwise "http://localhost:8080";
\* auth is ApiKey{"SIGNOZ-API-KEY", key} exactly when SIGNOZ_API_KEY is set
\* and non-empty, otherwise None, whatever the email/password variables
\* hold; login_credentials_from_env returns a pair exactly when both
\* SIGNOZ_EMAIL and SIGNOZ_PASSWORD are set and non-empty.
C23_EnvConfig == EnvConfigWhere(SetNonEmpty)

\* C23 amended: the same with "set and non-empty" narrowed to "set to a
\* non-empty value that is valid Unicode"; a variable whose value is not
\* valid Unicode counts as not set.
C23_EnvConfigUnicode == EnvConfigWhere(SetUnicodeNonEmpty)

\* An API key next to email and password: the API key wins in the config,
\* and the credentials are still returned.
C23_Witness ==
  /\ calc.op = "signoz_config_from_env"
  /\ calc.input.SIGNOZ_API_KEY = "my-secret"
  /\ calc.input.SIGNOZ_EMAIL = "user@example.com"
  /\ calc.input.SIGNOZ_PASSWORD = "pass123"
  /\ calc.input.SIGNOZ_BASE_URL = NotUnicode
  /\ calc.out.v.SigNoz.auth.type = "ApiKey"
  /\ calc.out.v.SigNoz.base_url = "http://localhost:8080"


\* ---------------------------------------------------------------------
\* Row timestamps (client.rs parse_trace_results start_time_ms,
\* parse_log_results timestamp_ms), checked under SpecIso
\* ---------------------------------------------------------------------
NumericTimestamp ==
  IF calc.input.data.some THEN parse_timestamp(calc.input.data.v) ELSE None
IsoTimestamp ==
  IF calc.input.timestamp.some
  THEN parse_iso8601_to_ms(calc.input.timestamp.v, calc.input.overflow_checks)
  ELSE None

\* C24: the timestamp of a row is the numeric timestamp field of its data
\* map as classified by parse_timestamp; if that field is absent, the
\* row-level ISO-8601 string as parsed by parse_iso8601_to_ms; if neither
\* yields a value, 0.
C24_TimestampOrder ==
  calc.op = "row_timestamp_ms" =>
    /\ NumericTimestamp.some => calc.out = NumericTimestamp
    /\ (~calc.input.data.some /\ IsoTimestamp.some) => calc.out = IsoTimestamp
    /\ (~calc.input.data.some /\ ~IsoTimestamp.some) => calc.out = Some(<<>>)

\* What the code does when parse_iso8601_to_ms returns: the row-level string
\* is consulted whenever the data field gives no value, absent or not.
RowTimestampWhenReturned ==
  (calc.op = "row_timestamp_ms" /\ calc.out # Panic) =>
    /\ NumericTimestamp.some => calc.out = NumericTimestamp
    /\ (~NumericTimestamp.some /\ IsoTimestamp.some) => calc.out = IsoTimestamp
    /\ (~NumericTimestamp.some /\ ~IsoTimestamp.some) => calc.out = Some(<<>>)


\* ---------------------------------------------------------------------
\* Log attributes (client.rs parse_log_results, extract_string_map),
\* checked under SpecQuery
\* ---------------------------------------------------------------------
\* The rows of an envelope, in order: those of every entry that has a list.
RECURSIVE ListRows(_)
ListRows(entries) ==
  IF entries = <<>> THEN <<>>
  ELSE (IF entries[1].list.some THEN entries[1].list.v ELSE <<>>)
         \o ListRows(Tail(entries))
LogRows == ListRows(extract_result_entries(EnvelopeOf(calc.input.exchange)))

StringKeys(data) == {k \in DOMAIN data : data[k].type = "string"}
NamedLogFields == {"severity_text", "body", "service_name"}

LogsReturned == calc.op = "query_logs" /\ calc.out.kind = "Ok"

\* C25: every log row is returned, and the attribute map of its LogEntry
\* holds the string-valued entries of the row's data map other than the ones
\* read into severity, body and service name; entries whose value is not a
\* string are absent from it.
C25_RemainingAttributes ==
  LogsReturned =>
    /\ Len(calc.out.value.items) = Len(LogRows)
    /\ \A i \in 1..Len(LogRows) :
         calc.out.value.items[i].attributes
           = [k \in StringKeys(LogRows[i].data) \ NamedLogFields |->
                LogRows[i].data[k].s]

\* C25 amended: every log row is returned, and the attribute map of its
\* LogEntry holds every string-valued entry of the row's data map, the ones
\* read into severity, body and service name included; entries whose value
\* is not a string are absent from it.
C25_StringAttributes ==
  LogsReturned =>
    /\ Len(calc.out.value.items) = Len(LogRows)
    /\ \A i \in 1..Len(LogRows) :
         calc.out.value.items[i].attributes
           = [k \in StringKeys(LogRows[i].data) |-> LogRows[i].data[k].s]

\* Two log rows returned; the second keeps body, severity_text and
\* service_name among its attributes and loses its numeric statusCode.
C25_Witness ==
  /\ LogsReturned
  /\ Len(LogRows) = 2
  /\ LogRows[2].data["statusCode"].type # "string"
  /\ DOMAIN calc.out.value.items[2].attributes
       = {"service_name", "body", "severity_text"}


\* ---------------------------------------------------------------------
\* Bridge: responses and the status they imply
\* ---------------------------------------------------------------------
\* A health check has finished (its status is written) and its response is
\* not pushed yet: a later health result exists.
LaterHealthResult == bpc[FG] = "push"

\* C26: whenever a HealthOk response is in the buffer or has been drained
\* and no later health result exists, the connection status is Connected;
\* whenever a HealthError response (failed health check, failed login or
\* failed construction) is in the buffer or has been drained and no later
\* health result exists, the connection status is Error.
C26_StatusNotBehindResponse ==
  (HealthResponses # <<>> /\ ~LaterHealthResult) =>
     /\ HealthResponses[Len(HealthResponses)].kind = "HealthOk"
          => SIGNOZ_CONNECTION_STATUS = "Connected"
     /\ HealthResponses[Len(HealthResponses)].kind = "HealthError"
          => SIGNOZ_CONNECTION_STATUS = "Error"

\* The background context has queued the HealthError of a failed login or
\* of a failed construction and has not yet recorded the Error status.
StartupErrorUnrecorded == bpc[FG] \in {"login_failed", "create_failed"}

\* C26 (amended): the same whenever the background context is not between
\* queuing a login-failure or construction-failure HealthError and
\* recording the Error status; the request loop writes the status before
\* it pushes the response.
C26_StatusNotBehindLoopResponse ==
  (HealthResponses # <<>> /\ ~LaterHealthResult /\ ~StartupErrorUnrecorded) =>
     SIGNOZ_CONNECTION_STATUS = ImpliedStatus

\* A HealthOk is drained by the foreground, which then reads Connected.
C26_Witness ==
  /\ drained # <<>>
  /\ drained[Len(drained)].kind = "HealthOk"
  /\ PENDING_SIGNOZ_RESPONSES = <<>>
  /\ ~LaterHealthResult
  /\ observed.status = "Connected"


\* ---------------------------------------------------------------------
\* Bridge: responses against requests
\* ---------------------------------------------------------------------
Count(q, Test(_)) == Cardinality({k \in 1..Len(q) : Test(q[k])})
IsHealthResponse(r) == r.kind \in {"HealthOk", "HealthError"}
IsTracesResponse(r) == r.kind \in {"Traces", "TracesError"}
IsLoopHealthResponse(r) == IsHealthResponse(r) /\ r.req # 0
IsStartupError(r) == r.req = 0
IsHealthCheck(r) == r.kind = "HealthCheck"
IsQueryTraces(r) == r.kind = "QueryTraces"

\* C27: the health responses ever pushed never outnumber the HealthCheck
\* requests sent, and the traces responses ever pushed never outnumber the
\* QueryTraces requests sent.
C27_ResponsesWithinRequests ==
  /\ Count(pushed, IsHealthResponse) <= Count(sent, IsHealthCheck)
  /\ Count(pushed, IsTracesResponse) <= Count(sent, IsQueryTraces)

\* The request a response of the loop answers.
Answers(r, q) ==
  /\ q.id = r.req
  /\ IsHealthResponse(r) <=> IsHealthCheck(q)
  /\ IsTracesResponse(r) <=> IsQueryTraces(q)

\* C27 (amended): apart from the one HealthError queued at startup (for a
\* failed login or for a failed construction), every response answers a
\* request the foreground sent, so the loop's health responses never
\* outnumber the HealthCheck requests and the traces responses never
\* outnumber the QueryTraces requests.
C27_LoopResponsesWithinRequests ==
  /\ Count(pushed, IsLoopHealthResponse) <= Count(sent, IsHealthCheck)
  /\ Count(pushed, IsTracesResponse) <= Count(sent, IsQueryTraces)
  /\ \A k \in 1..Len(pushed) :
       \/ /\ IsStartupError(pushed[k])
          /\ pushed[k].kind = "HealthError"
          /\ pushed[k].text \in {"Login failed", "ConnectionFailed"}
       \/ \E j \in 1..Len(sent) : Answers(pushed[k], sent[j])
  /\ Count(pushed, IsStartupError) <= 1

\* Both kinds of request are answered after a failed login.
C27_Witness ==
  /\ Count(pushed, IsStartupError) = 1
  /\ Count(pushed, IsLoopHealthResponse) = 1
  /\ Count(pushed, IsTracesResponse) = 1


\* ---------------------------------------------------------------------
\* Bridge: requests made while no sender is installed
\* ---------------------------------------------------------------------
\* A request is issued (its id is taken) while SIGNOZ_SENDER is None.
RequestWithoutSender == SIGNOZ_SENDER = "none" /\ nextId' = nextId + 1

\* Request i was issued and was not handed to a sender.
Unsent(i) == i <= nextId /\ ~IsSent(i)

\* C28: request_health_check and request_traces called while no sender is
\* installed leave the response buffer, the connection status, the
\* configured flag (and the channels) unchanged, and no response is ever
\* produced for them, even after a later initialization.
C28_NoSenderNoEffect ==
  /\ [][RequestWithoutSender =>
          UNCHANGED <<PENDING_SIGNOZ_RESPONSES, SIGNOZ_CONNECTION_STATUS,
                      SIGNOZ_CONFIGURED, SIGNOZ_RUNTIME, SIGNOZ_SENDER,
                      channel, sent, pushed>>]_vars
  /\ [](\A i \in Ids : Unsent(i) => NumResponses(i) = 0)

\* A request made before initialization stays unanswered while a request
\* made after it is answered.
C28_Witness ==
  /\ Unsent(1)
  /\ IsSent(2)
  /\ NumResponses(2) = 1
  /\ bpc[FG] = "loop"
  /\ channel[FG] = <<>>


\* ---------------------------------------------------------------------
\* Bridge: who writes the connection status
\* ---------------------------------------------------------------------
ProcessingQueryTraces == bpc[FG] = "call" /\ cur[FG].kind = "QueryTraces"
ProcessingHealthCheck == bpc[FG] = "call" /\ cur[FG].kind = "HealthCheck"

\* C29: processing a QueryTraces request leaves the connection status
\* unchanged whatever its outcome; only health-check results, login failure
\* and backend-construction failure ever write the connection status.
C29_TracesKeepStatus ==
  /\ [][ProcessingQueryTraces => UNCHANGED SIGNOZ_CONNECTION_STATUS]_vars
  /\ [][SIGNOZ_CONNECTION_STATUS' # SIGNOZ_CONNECTION_STATUS =>
          \/ ProcessingHealthCheck
          \/ StartupErrorUnrecorded]_vars

\* A failed trace query was answered after a successful health check, and
\* the status is still Connected.
C29_Witness ==
  /\ pushed # <<>>
  /\ pushed[Len(pushed)].kind = "TracesError"
  /\ bpc[FG] = "loop"
  /\ SIGNOZ_CONNECTION_STATUS = "Connected"


\* ===========================================================================
\* The application: startup, trace refresh and the per-frame poll
\* ===========================================================================
\* handle_startup calls init_signoz_from_env, which on the first call of the
\* process runs its critical sections one after the other.
handle_startup_init ==
  /\ app.pc = "startup"
  /\ ret[FG] = "none"
  /\ \/ InitCheck(FG) \/ InitMark(FG) \/ InitConfigured(FG)
     \/ InitInstall(FG) \/ InitSpawn(FG)

\* init_signoz_from_env has returned: its result is kept in
\* signoz_available and, when true, a health check is requested.
handle_startup ==
  /\ app.pc = "startup"
  /\ ipc[FG] = "idle"
  /\ ret[FG] # "none"
  /\ app' = [app EXCEPT !.pc = "running",
                        !.signoz_available = (ret[FG] = "true")]
  /\ IF ret[FG] = "true"
     THEN /\ nextId' = nextId + 1
          /\ send_request(HealthCheck(nextId + 1))
     ELSE UNCHANGED <<nextId, channel, sent, panicked>>
  /\ UNCHANGED <<env, calc, statics, initLocals, bgLocals, pushed, drained,
                 takeLog, observed>>

\* Mutant: the refresh sends the query and leaves the panel as it was.
refresh_traces_no_loading ==
  /\ app.pc = "running"
  /\ nextId < MaxRequests
  /\ app' = app
  /\ nextId' = nextId + 1
  /\ send_request(QueryTraces(nextId + 1))
  /\ UNCHANGED <<env, calc, statics, initLocals, bgLocals, pushed, drained,
                 takeLog, observed>>

\* refresh_traces (refresh button, first visit of the traces tab, or the
\* auto-refresh timer): the panel is set to Loading and a QueryTraces
\* request is sent.
refresh_traces ==
  /\ app.pc = "running"
  /\ nextId < MaxRequests
  /\ app' = [app EXCEPT !.loading_state = "Loading"]
  /\ nextId' = nextId + 1
  /\ send_request(QueryTraces(nextId + 1))
  /\ UNCHANGED <<env, calc, statics, initLocals, bgLocals, pushed, drained,
                 takeLog, observed>>

\* handle_signoz_response: health responses only change the connection
\* label; Traces calls set_spans, TracesError calls set_error.
handle_signoz_response(a, response) ==
  CASE response.kind = "Traces" ->
         [a EXCEPT !.traces_loaded_once = TRUE, !.loading_state = "Idle"]
    [] response.kind = "TracesError" -> [a EXCEPT !.loading_state = "Error"]
    [] OTHER -> a

RECURSIVE handle_signoz_responses(_, _)
handle_signoz_responses(a, responses) ==
  IF responses = <<>> THEN a
  ELSE handle_signoz_responses(handle_signoz_response(a, Head(responses)),
                               Tail(responses))

\* Every frame: the buffer is drained and each response is handled in order.
poll_signoz_responses ==
  /\ app.pc = "running"
  /\ ipc[FG] = "idle"
  /\ drained' = drained \o PENDING_SIGNOZ_RESPONSES
  /\ takeLog' = IF Len(takeLog) < 2
                THEN Append(takeLog, PENDING_SIGNOZ_RESPONSES)
                ELSE <<takeLog[2], PENDING_SIGNOZ_RESPONSES>>
  /\ PENDING_SIGNOZ_RESPONSES' = <<>>
  /\ app' = handle_signoz_responses(app, PENDING_SIGNOZ_RESPONSES)
  /\ UNCHANGED <<env, calc, SIGNOZ_RUNTIME, SIGNOZ_SENDER, SIGNOZ_CONNECTION_STATUS,
                 SIGNOZ_CONFIGURED, initLocals, channel, bgLocals, nextId, sent,
                 pushed, observed, panicked>>

NextApp ==
  \/ handle_startup_init
  \/ handle_startup
  \/ refresh_traces
  \/ poll_signoz_responses
  \/ Background(Foreground)

SpecApp == Init /\ [][NextApp]_vars

\* The background thread keeps running, every HTTP round-trip returns or
\* panics, and the event loop delivers a frame after every frame.
SpecAppFair ==
  /\ SpecApp
  /\ WF_vars(Background(Foreground))
  /\ WF_vars(poll_signoz_responses)

Loading == app.loading_state = "Loading"

\* C30: whenever the application starts a trace refresh on a bridge whose
\* initialization returned true, and the foreground keeps draining responses
\* every frame, the panel eventually leaves Loading for Idle or Error.
C30_LoadingEnds ==
  (Loading /\ app.signoz_available) ~> (app.loading_state \in {"Idle", "Error"})

\* The panel leaves Loading when the backend was constructed and no backend
\* call panics.
LoadingEndsWhileContextLives ==
  (Loading /\ app.signoz_available) ~>
     (app.loading_state \in {"Idle", "Error"} \/ CreateFailed \/ BackendCallPanicked)
====
